---- MODULE Spec2Model ----
(***************************************************************************)
(* The pluggable transport layer of hydra: the TransportManager fallback   *)
(* chain (package manager), the domain-fronting transport (package         *)
(* fronting), the mesh transport (package mesh) and peer discovery         *)
(* (package discovery).                                                    *)
(*                                                                         *)
(* Spec      the manager as manager.New() builds it, driven by concurrent  *)
(*           callers of Send and SwitchTo whose contexts may be cancelled  *)
(*           at any moment.                                                *)
(* MeshSpec  one mesh transport driven through its exported methods: Send  *)
(*           by concurrent senders, UpdatePeers by an updater.             *)
(* ChainSpec the manager over a mesh transport with or without peers.      *)
(* ClassifySpec  isBlockingError applied to the errors a transport's Send  *)
(*           can return and to messages built around the signs it seeks.   *)
(* DiscoverySpec  the AutoPeerManager: mDNS discovery, the reconciler's    *)
(*           ticks, Stop; DiscoveryLiveSpec adds fairness of the exits.    *)
(* StartSpec  ServiceDiscovery.Start and Stop.                             *)
(* FrontingSpec  one Send of a fronting transport, request and answer.     *)
(* ConnectSpec  Connect of the manager and of the transports.              *)
(* AvailSpec  the manager over transports that may be unavailable, with    *)
(*           GetStatus.                                                    *)
(* VerSpec   the SMS and e-mail verification codes of the storage, used    *)
(*           by concurrent HTTP handlers.                                  *)
(* HandlerSpec  handleSend: Send, then GetCurrentTransport for the answer. *)
(* MutexSpec  the manager's mutex with calls that wait for it, under       *)
(*           fairness.                                                     *)
(* WireSpec  the connections of one fronting Send and of one mesh Send.    *)
(* InviteSpec  the invites of the storage and handleRegister.              *)
(*                                                                         *)
(* Positions in the chain are 0-based, as in the Go source.                *)
(***************************************************************************)
EXTENDS Integers, Sequences, FiniteSets, TLC

\* The goroutines that call into the manager (HTTP handlers, main).
Callers == {"c1", "c2"}

\* Value of a mutex that nobody holds.
NoOne == "nobody"

---------------------------------------------------------------------------
(* Go error values.  Every error is a record of one shape so that any two  *)
(* can be compared: kind names the package that made it, cause what went   *)
(* wrong, status the HTTP status (0 when there is none), where the front   *)
(* domain it is about, inner the underlying error its message carries     *)
(* ("" when it carries none).                                              *)

Last(seq) == seq[Len(seq)]

MkErr(kind, cause, status, where, inner) ==
    [kind |-> kind, cause |-> cause, status |-> status, where |-> where,
     inner |-> inner]

\* a nil error
NoErr == MkErr("nil", "", 0, "", "")

\* ctx.Err() of a cancelled context
CtxErr == MkErr("context", "context canceled", 0, "", "")

\* the value of result[c] while the call has not returned
Pending == MkErr("pending", "", 0, "", "")

\* a nil net.Listener
NoSocket == 0

\* no port: the zero value of an int
NoPort == 0

\* the two tables of verification codes, part_002 lines 68-84
Tables == {"sms_verifications", "email_verifications"}

\* a phone number and an e-mail address
Contacts == {"+1234567890", "user@example.com"}

\* the table the functions for SMS and those for e-mail work on
TableOf(contact) ==
    IF contact = "+1234567890" THEN "sms_verifications" ELSE "email_verifications"

\* a row of either table: contact is its phone or email column
Row(contact, code, expiresAt, verified) ==
    [contact |-> contact, code |-> code, expiresAt |-> expiresAt,
     verified |-> verified]

\* no row at all
NoRow == Row("", "", 0, FALSE)

\* how many invites are made
MaxInvites == 2

\* how far the clock of the invites runs, in days
MaxDays == 2

\* part_002 line 92: 24 * time.Hour, in days
TwentyFourHours == 1

\* how many times a token is let through before requests with it stop
MaxGrants == 2

\* part_002 line 91: "invite-%d" of time.Now().UnixNano(); the n-th call
\* reads a later instant than the calls before it
Token(n) == "invite-" \o ToString(n)

Tokens == {Token(n) : n \in 1 .. MaxInvites}

\* a row of the table invites, and the absence of one
Invite(token, contactInfo, expiresAt) ==
    [token |-> token, contactInfo |-> contactInfo, expiresAt |-> expiresAt]

NoInvite == Invite("", "", 0)

\* the response of handleSend, server.go lines 338-348, and next to it the
\* name of the transport whose Send delivered the message ("" when none did)
Report(name, by, success) ==
    [transport |-> name, deliveredBy |-> by, success |-> success]

NoReport == Report("", "", FALSE)

\* make(map[string]string): a map without keys
NoStatus == [n \in {} |-> ""]

---------------------------------------------------------------------------
(* manager.New: four fronting transports, then one mesh transport.         *)

FrontDomains ==
    << "ajax.googleapis.com", "cdn.cloudflare.com",
       "d3a2p9q8.stackpathcdn.com", "assets.buymeacoffee.com" >>

HiddenDomain == "secret-chat.appspot.com"

StaticPeers ==
    << "192.168.1.100:8080", "192.168.1.101:8080", "192.168.1.102:8080" >>

frontingTransports ==
    [j \in 0 .. Len(FrontDomains) - 1 |->
        [kind |-> "fronting", FrontDomain |-> FrontDomains[j + 1],
         HiddenDomain |-> HiddenDomain]]

meshTransport == [kind |-> "mesh", FrontDomain |-> "", HiddenDomain |-> ""]

transports ==
    [j \in 0 .. Len(FrontDomains) |->
        IF j < Len(FrontDomains) THEN frontingTransports[j] ELSE meshTransport]

\* len(m.transports)
N == Len(FrontDomains) + 1

\* Transport.Name
Name(t) == IF t.kind = "fronting" THEN "domain-fronting" ELSE "mesh"

\* Transport.IsAvailable: both families answer true unconditionally.
IsAvailable(t) == IF t.kind = "fronting" THEN TRUE ELSE TRUE

---------------------------------------------------------------------------
VARIABLES
    currentIndex,   \* TransportManager.currentIndex
    mu,             \* TransportManager.mu: the caller holding it, or NoOne
    pc,             \* pc[c]: where caller c stands
    i,              \* i[c]: the loop index of Send's for-range
    cancelled,      \* cancelled[c]: ctx.Done() of c's context is closed
    attempts,       \* attempts[c]: positions on which t.Send was invoked, in order
    err,            \* err[c]: err of line 350, scoped to one iteration of the loop
    result,         \* result[c]: what the call returned (NoErr is ok)
    delivered,      \* delivered[c]: whether a remote end holds c's payload ("no"),
                    \* and whether a transport's Send said so ("reported") or
                    \* failed all the same ("unreported")
    cancelPoint,    \* cancelPoint[c]: how far c's Send was when ctx was cancelled
    peers,          \* MeshTransport.peers, a slice header [ptr, len]
    meshMu,         \* MeshTransport.mu
    upc,            \* where the goroutine calling UpdatePeers stands
    newPeers,       \* the argument of the UpdatePeers in progress
    op,             \* op[c]: the exported method c is in ("" when in none)
    checkedLen,     \* checkedLen[c]: len(m.peers) as c's mesh Send read it at line 81
    ranged,         \* ranged[c]: the slice c's mesh Send ranges over
    peerIdx,        \* peerIdx[c]: position in ranged[c] (1-based)
    lastError,      \* lastError[c]: MeshTransport.Send's lastError
    sentVia,        \* the transport whose Send returned sendErr (a chain position)
    sendErr,        \* the error the manager's line 350 got from t.Send
    blocking,       \* what isBlockingError(sendErr) returned ("unknown" before)
    switched,       \* whether the test of line 362 held ("unknown" before)
    sentTo,         \* sentTo[c]: the peer the log line of transport.go:102 names
    sdPeers,        \* ServiceDiscovery.peers: entry name -> "ip:port"
    sdStopped,      \* ServiceDiscovery.stopChan is closed
    apmStopped,     \* AutoPeerManager.stopChan is closed
    tickPending,    \* a tick waits in AutoPeerManager.updateTicker.C
    recPc,          \* autoUpdatePeers: "running" or "exited"
    discPc,         \* discoverServices: "running" or "exited"
    queried,        \* an mdns.Query has been started
    stopPanic,      \* Stop was called again and close() panicked
    announcing,     \* the mDNS server of advertiseService is running
    startResult,    \* what ServiceDiscovery.Start returned ("" before the call)
    frT,            \* the fronting transport a lone Send is followed on
    frData,         \* data, the argument of that Send
    frPc,           \* where that Send stands: "new", "sent", "done"
    frSeen,         \* what the server on the front saw of the request
    frOut,          \* what t.client.Do returned
    frErr,          \* what Send returned
    listener,       \* MeshTransport.listener: the socket it holds (NoSocket for nil)
    sockets,        \* the listening sockets this process has open
    currentIP,      \* MeshTransport.currentIP
    connPc,         \* TransportManager.Connect: "idle", "loop" or "done"
    connIdx,        \* the index of Connect's for-range
    connected,      \* positions on which t.Connect was invoked by this call, in order
    warned,         \* positions whose Connect failed and was only logged
    connResult,     \* what TransportManager.Connect returned
    boundPort,      \* the port m.listener is bound to (NoPort without a listener)
    sdPort,         \* ServiceDiscovery.port (NoPort before NewAutoPeerManager)
    switchArg,      \* switchArg[c]: name, the argument of c's SwitchTo ("" outside one)
    available,      \* available[j]: what IsAvailable of the transport at position j answers
    status,         \* status[c]: the map c's last GetStatus returned
    table,          \* table[n]: the rows of table n, oldest first
    now,            \* time.Now(), in units of ten minutes
    hpc,            \* hpc[h]: where handler h stands: "idle", "deleted", "selected"
    hArg,           \* hArg[h]: the row handler h is creating or validating
    hOut,           \* what the Validate that returned last returned ("" before any)
    latest,         \* latest[p]: the code of the Create for contact p that returned last
    telemetry,      \* telemetry[c]: the response handleSend wrote for c's last Send
    dPc,            \* a fronting Send seen at its connection: "idle", "dialing",
                    \* "handshake", "connected", "responded", "done"
    dIdx,           \* the index of DialTLSContext's range over dnsServers (1-based)
    tried,          \* the resolvers dialer.DialContext was called with, in order
    outcomes,       \* how each of these attempts ended
    tcpOpen,        \* the attempts whose TCP socket is open
    used,           \* the attempt whose connection DialTLSContext returned (0: none)
    dSni,           \* the ServerName of the last handshake
    dStatus,        \* the status of the response (0 without one)
    bodyOpen,       \* resp.Body is open
    dErr,           \* what the fronting Send returned
    mPc,            \* a mesh Send seen at its connections: "idle", "loop", "write", "done"
    mIdx,           \* the index of its range over m.peers (1-based)
    mConns,         \* the peers to which a connection of this Send is open
    mLast,          \* lastError
    mCtxDone,       \* ctx.Done() of the mesh Send is closed
    mErr,           \* what the mesh Send returned
    invites,        \* the rows of the table invites
    issued,         \* how many invite tokens CreateInvite has made
    today,          \* the clock of the invites, in days
    ipc,            \* handleRegister of each request: "idle", "selected", "validated"
    iArg,           \* the row its SELECT scanned
    iOut,           \* what each request was answered
    granted,        \* per token, how many ValidateInvite calls returned its contact info
    completed,      \* per token, how many registrations succeeded
    users           \* the rows of the table users (email and phone)

mgrVars == << currentIndex, mu >>
callVars == << pc, i, cancelled, attempts, err, result, delivered, cancelPoint >>
meshVars == << peers, meshMu, upc, newPeers >>
meshCall == << op, checkedLen, ranged, peerIdx, lastError >>
classVars == << sentVia, sendErr, blocking, switched >>
discVars == << sdPeers, sdStopped, apmStopped, tickPending, recPc, discPc,
              queried, stopPanic >>
startVars == << announcing, startResult >>
frVars == << frT, frData, frPc, frSeen, frOut, frErr >>
connVars == << listener, sockets, currentIP, connPc, connIdx, connected, warned,
              connResult, boundPort, sdPort >>
swVars == << switchArg >>
availVars == << available, status >>
verVars == << table, now, hpc, hArg, hOut, latest >>
telVars == << telemetry >>
wireVars == << dPc, dIdx, tried, outcomes, tcpOpen, used, dSni, dStatus, bodyOpen, dErr, mPc, mIdx, mConns, mLast, mCtxDone, mErr >>
invVars == << invites, issued, today, ipc, iArg, iOut, granted, completed, users >>
laterVars == << startVars, frVars, connVars, swVars, availVars, verVars, telVars, wireVars, invVars >>
exceptStart == << frVars, connVars, swVars, availVars, verVars, telVars, wireVars, invVars >>
exceptFr == << startVars, connVars, swVars, availVars, verVars, telVars, wireVars, invVars >>
exceptConn == << startVars, frVars, swVars, availVars, verVars, telVars, wireVars, invVars >>
exceptSw == << startVars, frVars, connVars, availVars, verVars, telVars, wireVars, invVars >>
exceptAvail == << startVars, frVars, connVars, swVars, verVars, telVars, wireVars, invVars >>
exceptVer == << startVars, frVars, connVars, swVars, availVars, telVars, wireVars, invVars >>
exceptTel == << startVars, frVars, connVars, swVars, availVars, verVars, wireVars, invVars >>
exceptWire == << startVars, frVars, connVars, swVars, availVars, verVars, telVars, invVars >>
exceptInv == << startVars, frVars, connVars, swVars, availVars, verVars, telVars, wireVars >>
restVars == << classVars, discVars, laterVars >>
auxVars == << restVars, sentTo >>
vars == << currentIndex, mu, pc, i, cancelled, attempts, err, result, delivered,
           cancelPoint, peers, meshMu, upc, newPeers, op, checkedLen, ranged,
           peerIdx, lastError, sentVia, sendErr, blocking, switched, sentTo,
           sdPeers, sdStopped, apmStopped, tickPending, recPc, discPc, queried,
           stopPanic, announcing, startResult, frT, frData, frPc, frSeen, frOut,
           frErr,
           listener, sockets, currentIP, connPc, connIdx, connected, warned, connResult,
           boundPort, sdPort,
           switchArg,
           available, status,
           table, now, hpc, hArg, hOut, latest,
           telemetry,
           dPc, dIdx, tried, outcomes, tcpOpen, used, dSni, dStatus, bodyOpen, dErr, mPc, mIdx, mConns, mLast, mCtxDone, mErr,
           invites, issued, today, ipc, iArg, iOut, granted, completed, users >>

---------------------------------------------------------------------------
(* fronting.Transport.Send.  What t.client.Do gives back is the network's  *)
(* choice: a response with some status, or a *url.Error.                   *)

Statuses == {200, 403, 404, 500, 502, 503, 504}

Response(s) == [resp |-> TRUE, status |-> s, timeout |-> FALSE, cause |-> ""]

DoError(timeout, cause) ==
    [resp |-> FALSE, status |-> 0, timeout |-> timeout, cause |-> cause]

\* the errors of client.Do while the context is live
DoErrors ==
    { DoError(TRUE, "context deadline exceeded"),
      DoError(FALSE, "dial tcp: connection refused"),
      DoError(FALSE, "all DNS servers failed") }

\* client.Do on a cancelled context
DoCanceled == DoError(FALSE, "context canceled")

\* err.(*net.OpError): client.Do wraps every error in a *url.Error, so the
\* assertion of line 157 never holds.
IsOpError(o) == FALSE

\* FrontingResult with only the 5xx answers taken for failures
FrontingResultLax(t, o) ==
    IF ~o.resp
    THEN MkErr("fronting", "request failed", 0, t.FrontDomain, o.cause)
    ELSE IF o.status < 500 THEN NoErr
    ELSE MkErr("fronting", "CDN gateway error", o.status, t.FrontDomain, "")

\* lines 151-181: the error Send returns for what client.Do gave back
FrontingResult(t, o) ==
    IF ~o.resp
    THEN IF o.timeout
         THEN MkErr("fronting", "timed out after 8 seconds", 0, t.FrontDomain, "")
         ELSE IF IsOpError(o)
              THEN MkErr("fronting", "network connection failed", 0,
                         t.FrontDomain, o.cause)
              ELSE MkErr("fronting", "request failed", 0, t.FrontDomain, o.cause)
    ELSE IF o.status = 200 THEN NoErr
    ELSE IF o.status = 403
         THEN MkErr("fronting", "CDN blocked request (403 Forbidden)", 403,
                    t.FrontDomain, "")
    ELSE IF o.status = 404
         THEN MkErr("fronting", "endpoint not found (404 Not Found)", 404,
                    t.FrontDomain, "")
    ELSE IF o.status \in {502, 503, 504}
         THEN MkErr("fronting", "CDN gateway error", o.status, t.FrontDomain, "")
    ELSE MkErr("fronting", "server returned status", o.status, t.FrontDomain, "")

\* Where the request body can be once client.Do has returned o: with the
\* hidden service when it answered 200; a non-200 answer or a lost answer may
\* come from the service itself, which read the body, or from something in
\* front of it; a failed dial reached nobody.
ServerGotBody(o) ==
    IF o.resp
    THEN IF o.status = 200 THEN {"reported"} ELSE {"no", "unreported"}
    ELSE IF o.timeout \/ o = DoCanceled THEN {"no", "unreported"} ELSE {"no"}

\* what is known of the payload after one more attempt
Upgrade(old, got) ==
    IF "reported" \in {old, got} THEN "reported"
    ELSE IF "unreported" \in {old, got} THEN "unreported"
    ELSE "no"

---------------------------------------------------------------------------
(* mesh.MeshTransport.  m.peers is a Go slice: Send reads its header       *)
(* without holding m.mu, UpdatePeers stores it word by word under m.mu.    *)

Junk == "<out of range>"

Header(list) == [ptr |-> list, len |-> Len(list)]

\* the elements a reader gets from a header whose words it has read
Elements(h) ==
    [j \in 1 .. h.len |-> IF j <= Len(h.ptr) THEN h.ptr[j] ELSE Junk]

\* the arguments UpdatePeers is called with
PeerInputs ==
    { << >>, << "10.0.0.5:7100" >>, << "10.0.0.6:7100", "10.0.0.7:7100" >> }

NoPeersErr == MkErr("mesh", "no peers available in mesh network", 0, "", "")

\* an aggregated error that drops the reason
AnyPeerErrBare(last) == MkErr("mesh", "failed to send to any peer", 0, "", "<nil>")

\* fmt.Errorf("failed to send to any peer: %v", lastError)
AnyPeerErr(last) == MkErr("mesh", "failed to send to any peer", 0, "", last)

\* lastError while no peer attempt has failed: %v prints it as <nil>
NilError == "<nil>"

\* sentTo[c] while no peer has taken the payload
NoPeer == ""

---------------------------------------------------------------------------
(* TransportManager.Send, part_000 lines 333-370.                          *)

\* fmt.Errorf of line 369 (in the source the text is Russian: "all
\* transports are unavailable"); it formats no underlying error.
AllFailedErr == MkErr("manager", "all transports unavailable", 0, "", "")

NoCancel == [invoke |-> -1, check |-> -1, peer |-> -1]

\* a return that leaves m.mu locked
ReturnKeepsLock(c, e) ==
    /\ result' = [result EXCEPT ![c] = e]
    /\ mu' = mu
    /\ pc' = [pc EXCEPT ![c] = "done"]

\* return e: the deferred m.mu.Unlock() runs
Return(c, e) ==
    /\ result' = [result EXCEPT ![c] = e]
    /\ mu' = IF mu = c THEN NoOne ELSE mu
    /\ pc' = [pc EXCEPT ![c] = "done"]

\* continue (or the end of the loop body): the next transport, or line 369
Continue(c) ==
    IF i[c] + 1 < N
    THEN /\ i' = [i EXCEPT ![c] = i[c] + 1]
         /\ pc' = [pc EXCEPT ![c] = "check"]
         /\ UNCHANGED << mu, result >>
    ELSE /\ Return(c, AllFailedErr)
         /\ i' = i

\* AfterSend that records the success and goes on down the chain
AfterSendKeepsGoing(c, e) ==
    IF e = NoErr /\ i[c] + 1 >= N
    THEN /\ currentIndex' = i[c]
         /\ Return(c, NoErr)
         /\ i' = i
         /\ err' = [err EXCEPT ![c] = NoErr]
    ELSE /\ Continue(c)
         /\ err' = [err EXCEPT ![c] = IF i[c] + 1 < N THEN NoErr ELSE e]
         /\ currentIndex' = IF e = NoErr THEN i[c] ELSE currentIndex

\* AfterSend that gives up on a 403 or a 404 instead of falling through
AfterSendGivesUp(c, e) ==
    IF e = NoErr
    THEN /\ currentIndex' = i[c]
         /\ Return(c, NoErr)
         /\ i' = i
         /\ err' = [err EXCEPT ![c] = NoErr]
    ELSE IF e.status \in {403, 404}
    THEN /\ Return(c, e)
         /\ i' = i
         /\ err' = [err EXCEPT ![c] = e]
         /\ UNCHANGED currentIndex
    ELSE /\ Continue(c)
         /\ err' = [err EXCEPT ![c] = IF i[c] + 1 < N THEN NoErr ELSE e]
         /\ UNCHANGED currentIndex

\* AfterSend that remembers every transport it tried
AfterSendRecordsAttempt(c, e) ==
    IF e = NoErr
    THEN /\ currentIndex' = i[c]
         /\ Return(c, NoErr)
         /\ i' = i
         /\ err' = [err EXCEPT ![c] = NoErr]
    ELSE /\ Continue(c)
         /\ err' = [err EXCEPT ![c] = IF i[c] + 1 < N THEN NoErr ELSE e]
         /\ currentIndex' = i[c]

\* AfterSend that remembers the position after the one that delivered
AfterSendOffByOne(c, e) ==
    IF e = NoErr
    THEN /\ currentIndex' = i[c] + 1
         /\ Return(c, NoErr)
         /\ i' = i
         /\ err' = [err EXCEPT ![c] = NoErr]
    ELSE /\ Continue(c)
         /\ err' = [err EXCEPT ![c] = IF i[c] + 1 < N THEN NoErr ELSE e]
         /\ UNCHANGED currentIndex

\* lines 351-366: what Send does with the error t.Send returned.  Both arms
\* of the test of line 362 go on to the next iteration, where err is out of
\* scope; after the last iteration err[c] keeps the failure the loop ended on.
AfterSend(c, e) ==
    IF e = NoErr
    THEN /\ currentIndex' = i[c]
         /\ Return(c, NoErr)
         /\ i' = i
         /\ err' = [err EXCEPT ![c] = NoErr]
    ELSE /\ Continue(c)
         /\ err' = [err EXCEPT ![c] = IF i[c] + 1 < N THEN NoErr ELSE e]
         /\ UNCHANGED currentIndex

\* A caller enters Send with a fresh context.
Send(c) ==
    /\ pc[c] = "idle"
    /\ pc' = [pc EXCEPT ![c] = "lock"]
    /\ op' = [op EXCEPT ![c] = "Send"]
    /\ UNCHANGED << mgrVars, i, cancelled, attempts, err, result, delivered,
                    cancelPoint, meshVars, auxVars, checkedLen, ranged, peerIdx, lastError >>

\* a lock that excludes nobody
CanLockAlways(c) == TRUE

\* whether m.mu.Lock() can return
CanLock(c) == mu = NoOne

\* a loop that starts at the transport that delivered last
StickyIndex == currentIndex

\* line 338: for i, t := range m.transports starts at the head of the chain
FirstIndex == 0

\* a select that never sees the context done
CtxNeverDone(c) == FALSE

\* case <-ctx.Done() is ready
CtxDone(c) == cancelled[c]

\* line 334: m.mu.Lock(), and the loop is entered
Lock(c) ==
    /\ pc[c] = "lock"
    /\ CanLock(c)
    /\ mu' = c
    /\ i' = [i EXCEPT ![c] = FirstIndex]
    /\ pc' = [pc EXCEPT ![c] = "check"]
    /\ UNCHANGED << currentIndex, cancelled, attempts, err, result, delivered,
                    cancelPoint, meshVars, auxVars, meshCall >>

\* a manager that takes every transport for available
AlwaysAvailableAt(j) == TRUE

\* t.IsAvailable() as lines 324, 343 and 422 call it on the transport at j
IsAvailableAt(j) == available[j]

\* lines 338-346: the select at the top of an iteration, then IsAvailable
Select(c) ==
    /\ pc[c] = "check"
    /\ IF CtxDone(c)
       THEN /\ Return(c, CtxErr)
            /\ i' = i
       ELSE IF ~IsAvailableAt(i[c])
            THEN Continue(c)
            ELSE /\ pc' = [pc EXCEPT ![c] = "call"]
                 /\ UNCHANGED << mu, result, i >>
    /\ UNCHANGED << currentIndex, cancelled, attempts, err, delivered, cancelPoint,
                    meshVars, auxVars, meshCall >>

\* line 350 on a fronting transport: t.Send is entered; on a cancelled
\* context client.Do fails at once.
FrontingSend(c) ==
    /\ pc[c] = "call"
    /\ transports[i[c]].kind = "fronting"
    /\ attempts' = [attempts EXCEPT ![c] = Append(attempts[c], i[c])]
    /\ IF cancelled[c]
       THEN AfterSend(c, FrontingResult(transports[i[c]], DoCanceled))
       ELSE /\ pc' = [pc EXCEPT ![c] = "roundtrip"]
            /\ UNCHANGED << currentIndex, mu, i, err, result >>
    /\ UNCHANGED << cancelled, delivered, cancelPoint, meshVars, auxVars, meshCall >>

\* client.Do returns
FrontingResponse(c) ==
    /\ pc[c] = "roundtrip"
    /\ \E o \in {Response(s) : s \in Statuses} \cup DoErrors
                 \cup (IF cancelled[c] THEN {DoCanceled} ELSE {}) :
          /\ \E got \in ServerGotBody(o) :
                delivered' = [delivered EXCEPT ![c] = Upgrade(delivered[c], got)]
          /\ AfterSend(c, FrontingResult(transports[i[c]], o))
    /\ UNCHANGED << cancelled, attempts, cancelPoint, meshVars, auxVars, meshCall >>

---------------------------------------------------------------------------
(* MeshTransport.Send, transport.go lines 80-110.                          *)

\* Send returns e to whoever called it: the manager's loop, or a caller
\* that holds the transport itself.  Its locals are gone.
MeshReturn(c, o, e) ==
    /\ checkedLen' = [checkedLen EXCEPT ![c] = 0]
    /\ ranged' = [ranged EXCEPT ![c] = << >>]
    /\ peerIdx' = [peerIdx EXCEPT ![c] = 0]
    /\ lastError' = [lastError EXCEPT ![c] = NilError]
    /\ IF o = "Send"
       THEN AfterSend(c, e)
       ELSE /\ Return(c, e)
            /\ UNCHANGED << currentIndex, i, err >>

\* Send goes on to program point p.
MeshGoto(c, p) ==
    /\ pc' = [pc EXCEPT ![c] = p]
    /\ UNCHANGED << currentIndex, mu, i, err, result >>

\* a Send that goes into its loop whatever len(m.peers) is
MeshCheckAlwaysRanges(c, o) ==
    /\ checkedLen' = [checkedLen EXCEPT ![c] = peers.len]
    /\ MeshGoto(c, "meshRange")
    /\ UNCHANGED << ranged, peerIdx, lastError >>

\* lines 81-83: the emptiness check, a read of the len word of m.peers
MeshCheck(c, o) ==
    IF peers.len = 0
    THEN MeshReturn(c, o, NoPeersErr)
    ELSE /\ checkedLen' = [checkedLen EXCEPT ![c] = peers.len]
         /\ MeshGoto(c, "meshRange")
         /\ UNCHANGED << ranged, peerIdx, lastError >>

\* line 350 on the mesh transport: t.Send is entered
MeshSend(c) ==
    /\ pc[c] = "call"
    /\ transports[i[c]].kind = "mesh"
    /\ attempts' = [attempts EXCEPT ![c] = Append(attempts[c], i[c])]
    /\ MeshCheck(c, op[c])
    /\ UNCHANGED << cancelled, delivered, cancelPoint, meshVars, auxVars, op >>

\* a caller that holds the mesh transport itself calls its Send
MeshSendDirect(c) ==
    /\ pc[c] = "idle"
    /\ op' = [op EXCEPT ![c] = "mesh.Send"]
    /\ MeshCheck(c, "mesh.Send")
    /\ UNCHANGED << cancelled, attempts, delivered, cancelPoint, meshVars, auxVars >>

\* line 87: range m.peers evaluates the slice header once, a second read
MeshRange(c) ==
    /\ pc[c] = "meshRange"
    /\ IF peers.len = 0
       THEN MeshReturn(c, op[c], AnyPeerErr(lastError[c]))
       ELSE /\ ranged' = [ranged EXCEPT ![c] = Elements(peers)]
            /\ peerIdx' = [peerIdx EXCEPT ![c] = 1]
            /\ MeshGoto(c, "meshSelect")
            /\ UNCHANGED << checkedLen, lastError >>
    /\ UNCHANGED << cancelled, attempts, delivered, cancelPoint, meshVars, auxVars, op >>

\* lines 88-90: the select at the top of a peer attempt
MeshSelect(c) ==
    /\ pc[c] = "meshSelect"
    /\ IF CtxDone(c)
       THEN MeshReturn(c, op[c], CtxErr)
       ELSE /\ MeshGoto(c, "meshDial")
            /\ UNCHANGED << checkedLen, ranged, peerIdx, lastError >>
    /\ UNCHANGED << cancelled, attempts, delivered, cancelPoint, meshVars, auxVars, op >>

\* What a peer attempt can come to.  An element read past the stored slice
\* is whatever memory holds: a string nothing answers at, or one whose read
\* faults.
DialOutcomes(peer) ==
    IF peer = Junk THEN {"dial failed", "panic"}
    ELSE {"dial failed", "write failed", "ok"}

\* err of line 92 or of line 98: a *net.OpError, whose message names the peer
PeerErr(o, peer) ==
    IF o = "dial failed"
    THEN "dial tcp " \o peer \o ": connect: connection refused"
    ELSE "write tcp " \o peer \o ": write: broken pipe"

\* the value of result[c] when the call panicked instead of returning
Panicked == MkErr("runtime", "panic: invalid memory address", 0, "", "")

\* a panic unwinds Send and its caller: the deferred unlocks run
MeshPanic(c) ==
    /\ checkedLen' = [checkedLen EXCEPT ![c] = 0]
    /\ ranged' = [ranged EXCEPT ![c] = << >>]
    /\ peerIdx' = [peerIdx EXCEPT ![c] = 0]
    /\ lastError' = [lastError EXCEPT ![c] = NilError]
    /\ Return(c, Panicked)
    /\ UNCHANGED << currentIndex, i, err >>

\* a Send that gives up at the first peer that fails
PeerFailedGivesUp(c, o, peer) ==
    MeshReturn(c, op[c], AnyPeerErr(PeerErr(o, peer)))

\* lines 93-96 and 105-109: lastError = err, then the next peer, or past the
\* last one the aggregated error
PeerFailed(c, o, peer) ==
    IF peerIdx[c] < Len(ranged[c])
    THEN /\ lastError' = [lastError EXCEPT ![c] = PeerErr(o, peer)]
         /\ peerIdx' = [peerIdx EXCEPT ![c] = peerIdx[c] + 1]
         /\ MeshGoto(c, "meshSelect")
         /\ UNCHANGED << checkedLen, ranged >>
    ELSE MeshReturn(c, op[c], AnyPeerErr(PeerErr(o, peer)))

\* lines 92-105: dial the peer, write the payload, close
MeshDial(c) ==
    /\ pc[c] = "meshDial"
    /\ LET peer == ranged[c][peerIdx[c]]
       IN  \E o \in DialOutcomes(peer) :
              IF o = "ok"
              THEN /\ delivered' = [delivered EXCEPT ![c] = "reported"]
                   /\ sentTo' = [sentTo EXCEPT ![c] = peer]
                   /\ MeshReturn(c, op[c], NoErr)
              ELSE IF o = "panic"
              THEN /\ UNCHANGED << delivered, sentTo >>
                   /\ MeshPanic(c)
              ELSE /\ UNCHANGED << delivered, sentTo >>
                   /\ PeerFailed(c, o, peer)
    /\ UNCHANGED << cancelled, attempts, cancelPoint, meshVars, restVars, op >>

-----
(* MeshTransport.UpdatePeers, transport.go lines 118-124.                  *)

Updater == "updater"

\* lines 119-120: m.mu.Lock()
UpdatePeers(list) ==
    /\ upc = "idle"
    /\ meshMu = NoOne
    /\ meshMu' = Updater
    /\ newPeers' = list
    /\ upc' = "store"
    /\ UNCHANGED << mgrVars, callVars, meshCall, peers, auxVars >>

\* line 122: m.peers = newPeers stores the first word of the header
StoreFirst ==
    /\ upc = "store"
    /\ \E w \in {"ptr", "len"} :
          /\ peers' = [peers EXCEPT ![w] = Header(newPeers)[w]]
          /\ upc' = IF w = "ptr" THEN "storeLen" ELSE "storePtr"
    /\ UNCHANGED << mgrVars, callVars, meshCall, meshMu, newPeers, auxVars >>

\* line 122, the other word; then the deferred m.mu.Unlock()
StoreRest ==
    /\ upc \in {"storeLen", "storePtr"}
    /\ peers' = Header(newPeers)
    /\ meshMu' = NoOne
    /\ upc' = "idle"
    /\ newPeers' = << >>
    /\ UNCHANGED << mgrVars, callVars, meshCall, auxVars >>

---------------------------------------------------------------------------
(* The context of a call, and the other methods of the manager.            *)

InCall == {"lock", "check", "call", "roundtrip", "meshRange", "meshSelect", "meshDial"}

\* How far mesh.Send's loop over the peers is: the first peer (1-based)
\* whose select has not run.
PeerProgress(c) ==
    IF pc[c] = "meshSelect" THEN peerIdx[c]
    ELSE IF pc[c] = "meshDial" THEN peerIdx[c] + 1
    ELSE 1

\* How far the manager's loop is: invoke is the first position whose t.Send
\* has not been entered, check the first whose select has not run.
Progress(c) ==
    IF pc[c] = "lock"
    THEN [invoke |-> FirstIndex, check |-> FirstIndex, peer |-> PeerProgress(c)]
    ELSE IF pc[c] = "check"
    THEN [invoke |-> i[c], check |-> i[c], peer |-> PeerProgress(c)]
    ELSE IF pc[c] = "call"
    THEN [invoke |-> i[c], check |-> i[c] + 1, peer |-> PeerProgress(c)]
    ELSE [invoke |-> i[c] + 1, check |-> i[c] + 1, peer |-> PeerProgress(c)]

\* the context of c's call is cancelled (its cancel func runs, its deadline
\* passes, the HTTP client of the request goes away)
Cancel(c) ==
    /\ pc[c] \in InCall
    /\ ~cancelled[c]
    /\ cancelled' = [cancelled EXCEPT ![c] = TRUE]
    /\ cancelPoint' = [cancelPoint EXCEPT ![c] = Progress(c)]
    /\ UNCHANGED << mgrVars, pc, i, attempts, err, result, delivered, meshVars, auxVars,
                    meshCall >>

NotFoundErr == MkErr("manager", "transport not found", 0, "", "")

\* the names SwitchTo is called with
SwitchNames == {"domain-fronting", "mesh", "fronting"}

\* GetCurrentTransport, part_000 lines 387-396
GetCurrentTransport == transports[currentIndex]

\* the positions whose transport has that name
Named(name) == {j \in 0 .. N - 1 : Name(transports[j]) = name}

\* a loop that keeps going after a match and so ends on the last one
Highest(found) == CHOOSE j \in found : \A h \in found : j >= h

\* the for-range of lines 403-409 returns at the first match
Lowest(found) == CHOOSE j \in found : \A h \in found : j <= h

\* SwitchTo, part_000 lines 399-412, the whole call under m.mu
SwitchTo(c, name) ==
    /\ pc[c] = "idle"
    /\ CanLock(c)
    /\ switchArg' = [switchArg EXCEPT ![c] = name]
    /\ IF Named(name) # {}
       THEN /\ currentIndex' = Lowest(Named(name))
            /\ result' = [result EXCEPT ![c] = NoErr]
       ELSE /\ result' = [result EXCEPT ![c] = NotFoundErr]
            /\ UNCHANGED currentIndex
    /\ op' = [op EXCEPT ![c] = "SwitchTo"]
    /\ pc' = [pc EXCEPT ![c] = "done"]
    /\ UNCHANGED << mu, i, cancelled, attempts, err, delivered, cancelPoint,
                    meshVars, classVars, discVars, exceptSw, sentTo, checkedLen,
                    ranged, peerIdx, lastError >>

\* the caller has its answer and goes on to other things
Done(c) ==
    /\ pc[c] = "done"
    /\ pc' = [pc EXCEPT ![c] = "idle"]
    /\ i' = [i EXCEPT ![c] = 0]
    /\ cancelled' = [cancelled EXCEPT ![c] = FALSE]
    /\ attempts' = [attempts EXCEPT ![c] = << >>]
    /\ err' = [err EXCEPT ![c] = NoErr]
    /\ result' = [result EXCEPT ![c] = Pending]
    /\ delivered' = [delivered EXCEPT ![c] = "no"]
    /\ cancelPoint' = [cancelPoint EXCEPT ![c] = NoCancel]
    /\ op' = [op EXCEPT ![c] = ""]
    /\ checkedLen' = [checkedLen EXCEPT ![c] = 0]
    /\ ranged' = [ranged EXCEPT ![c] = << >>]
    /\ peerIdx' = [peerIdx EXCEPT ![c] = 0]
    /\ lastError' = [lastError EXCEPT ![c] = NilError]
    /\ sentTo' = [sentTo EXCEPT ![c] = NoPeer]
    /\ switchArg' = [switchArg EXCEPT ![c] = ""]
    /\ telemetry' = [telemetry EXCEPT ![c] = NoReport]
    /\ UNCHANGED << mgrVars, meshVars, classVars, discVars, startVars, frVars,
                    connVars, availVars, verVars, wireVars, invVars >>

---------------------------------------------------------------------------
CallInit ==
    /\ pc = [c \in Callers |-> "idle"]
    /\ i = [c \in Callers |-> 0]
    /\ cancelled = [c \in Callers |-> FALSE]
    /\ attempts = [c \in Callers |-> << >>]
    /\ err = [c \in Callers |-> NoErr]
    /\ result = [c \in Callers |-> Pending]
    /\ delivered = [c \in Callers |-> "no"]
    /\ cancelPoint = [c \in Callers |-> NoCancel]
    /\ op = [c \in Callers |-> ""]
    /\ checkedLen = [c \in Callers |-> 0]
    /\ ranged = [c \in Callers |-> << >>]
    /\ peerIdx = [c \in Callers |-> 0]
    /\ lastError = [c \in Callers |-> NilError]

\* no error is being classified
ClassIdle ==
    /\ sentVia = 0
    /\ sendErr = NoErr
    /\ blocking = "unknown"
    /\ switched = "unknown"

\* no AutoPeerManager has been made
DiscIdle ==
    /\ sdPeers = [n \in {} |-> ""]
    /\ sdStopped = FALSE
    /\ apmStopped = FALSE
    /\ tickPending = FALSE
    /\ recPc = "exited"
    /\ discPc = "exited"
    /\ queried = FALSE
    /\ stopPanic = FALSE

\* ServiceDiscovery.Start is not being followed
StartIdle ==
    /\ announcing = FALSE
    /\ startResult = ""

\* what is not there yet: no request seen, no result of client.Do
Nothing == [none |-> TRUE]

\* no lone fronting Send is being followed
FrIdle ==
    /\ frT = Nothing
    /\ frData = << >>
    /\ frPc = "idle"
    /\ frSeen = Nothing
    /\ frOut = Nothing
    /\ frErr = Pending

\* no Connect has been called
ConnIdle ==
    /\ listener = NoSocket
    /\ sockets = {}
    /\ currentIP = ""
    /\ connPc = "idle"
    /\ connIdx = 0
    /\ connected = << >>
    /\ warned = << >>
    /\ connResult = Pending
    /\ boundPort = NoPort
    /\ sdPort = NoPort

\* nobody has called SwitchTo
SwIdle == switchArg = [c \in Callers |-> ""]

\* the transports of New, and nobody has called GetStatus
AvailIdle ==
    /\ available = [j \in 0 .. N - 1 |-> IsAvailable(transports[j])]
    /\ status = [c \in Callers |-> NoStatus]

\* createTables on an empty database, part_002 lines 68-84
VerIdle ==
    /\ table = [n \in Tables |-> << >>]
    /\ now = 0
    /\ hpc = [h \in Callers |-> "idle"]
    /\ hArg = [h \in Callers |-> NoRow]
    /\ hOut = ""
    /\ latest = [p \in Contacts |-> ""]

\* no request has been answered
TelIdle == telemetry = [c \in Callers |-> NoReport]

\* no connection has been asked for
WireIdle ==
    /\ dPc = "idle"
    /\ dIdx = 0
    /\ tried = << >>
    /\ outcomes = << >>
    /\ tcpOpen = {}
    /\ used = 0
    /\ dSni = ""
    /\ dStatus = 0
    /\ bodyOpen = FALSE
    /\ dErr = Pending
    /\ mPc = "idle"
    /\ mIdx = 0
    /\ mConns = {}
    /\ mLast = NilError
    /\ mCtxDone = FALSE
    /\ mErr = Pending

\* no invite has been made and no registration asked for
InvIdle ==
    /\ invites = {}
    /\ issued = 0
    /\ today = 0
    /\ ipc = [h \in Callers |-> "idle"]
    /\ iArg = [h \in Callers |-> NoInvite]
    /\ iOut = [h \in Callers |-> ""]
    /\ granted = [t \in Tokens |-> 0]
    /\ completed = [t \in Tokens |-> 0]
    /\ users = {}

LaterIdle ==
    /\ StartIdle
    /\ FrIdle
    /\ ConnIdle
    /\ SwIdle
    /\ AvailIdle
    /\ VerIdle
    /\ TelIdle
    /\ WireIdle
    /\ InvIdle

\* every later part but startVars is idle
ExceptStartIdle ==
    /\ FrIdle
    /\ ConnIdle
    /\ SwIdle
    /\ AvailIdle
    /\ VerIdle
    /\ TelIdle
    /\ WireIdle
    /\ InvIdle

\* every later part but frVars is idle
ExceptFrIdle ==
    /\ StartIdle
    /\ ConnIdle
    /\ SwIdle
    /\ AvailIdle
    /\ VerIdle
    /\ TelIdle
    /\ WireIdle
    /\ InvIdle

\* every later part but connVars is idle
ExceptConnIdle ==
    /\ StartIdle
    /\ FrIdle
    /\ SwIdle
    /\ AvailIdle
    /\ VerIdle
    /\ TelIdle
    /\ WireIdle
    /\ InvIdle

\* every later part but swVars is idle
ExceptSwIdle ==
    /\ StartIdle
    /\ FrIdle
    /\ ConnIdle
    /\ AvailIdle
    /\ VerIdle
    /\ TelIdle
    /\ WireIdle
    /\ InvIdle

\* every later part but availVars is idle
ExceptAvailIdle ==
    /\ StartIdle
    /\ FrIdle
    /\ ConnIdle
    /\ SwIdle
    /\ VerIdle
    /\ TelIdle
    /\ WireIdle
    /\ InvIdle

\* every later part but verVars is idle
ExceptVerIdle ==
    /\ StartIdle
    /\ FrIdle
    /\ ConnIdle
    /\ SwIdle
    /\ AvailIdle
    /\ TelIdle
    /\ WireIdle
    /\ InvIdle

\* every later part but telVars is idle
ExceptTelIdle ==
    /\ StartIdle
    /\ FrIdle
    /\ ConnIdle
    /\ SwIdle
    /\ AvailIdle
    /\ VerIdle
    /\ WireIdle
    /\ InvIdle

\* every later part but wireVars is idle
ExceptWireIdle ==
    /\ StartIdle
    /\ FrIdle
    /\ ConnIdle
    /\ SwIdle
    /\ AvailIdle
    /\ VerIdle
    /\ TelIdle
    /\ InvIdle

\* every later part but invVars is idle
ExceptInvIdle ==
    /\ StartIdle
    /\ FrIdle
    /\ ConnIdle
    /\ SwIdle
    /\ AvailIdle
    /\ VerIdle
    /\ TelIdle
    /\ WireIdle

AuxIdle ==
    /\ ClassIdle
    /\ DiscIdle
    /\ LaterIdle
    /\ sentTo = [c \in Callers |-> NoPeer]

\* manager.New, part_000 lines 257-297
Init ==
    /\ currentIndex = 0
    /\ mu = NoOne
    /\ peers = Header(StaticPeers)
    /\ meshMu = NoOne
    /\ upc = "idle"
    /\ newPeers = << >>
    /\ CallInit
    /\ AuxIdle

Next ==
    \E c \in Callers :
        \/ Send(c)
        \/ Lock(c)
        \/ Select(c)
        \/ FrontingSend(c)
        \/ FrontingResponse(c)
        \/ MeshSend(c)
        \/ MeshRange(c)
        \/ MeshSelect(c)
        \/ MeshDial(c)
        \/ Cancel(c)
        \/ \E name \in SwitchNames : SwitchTo(c, name)
        \/ Done(c)

Spec == Init /\ [][Next]_vars

\* mesh.New([]string{}) as NewAutoPeerManager calls it, part_003 line 26
MeshInit ==
    /\ currentIndex = 0
    /\ mu = NoOne
    /\ peers = Header(<< >>)
    /\ meshMu = NoOne
    /\ upc = "idle"
    /\ newPeers = << >>
    /\ CallInit
    /\ AuxIdle

MeshNext ==
    \/ \E c \in Callers :
          \/ MeshSendDirect(c)
          \/ MeshRange(c)
          \/ MeshSelect(c)
          \/ MeshDial(c)
          \/ Cancel(c)
          \/ Done(c)
    \/ \E list \in PeerInputs : UpdatePeers(list)
    \/ StoreFirst
    \/ StoreRest

MeshSpec == MeshInit /\ [][MeshNext]_vars

\* The manager's chain over a mesh transport built by mesh.New with either
\* of the peer lists the repository passes to it: the static list of
\* manager.New (part_000 line 287) or the empty list of NewAutoPeerManager
\* (part_003 line 26).
ChainInit ==
    /\ currentIndex = 0
    /\ mu = NoOne
    /\ peers \in {Header(StaticPeers), Header(<< >>)}
    /\ meshMu = NoOne
    /\ upc = "idle"
    /\ newPeers = << >>
    /\ CallInit
    /\ AuxIdle

ChainSpec == ChainInit /\ [][Next]_vars

---------------------------------------------------------------------------
(* Error messages, and the manager's classifier isBlockingError, part_000  *)
(* lines 373-384.                                                          *)

\* Transport.EndpointUrl, fronting.go line 107
EndpointUrl(front) == "https://" \o front \o "/message"

\* (*url.Error).Error() of what client.Do returns for a POST
UrlError(front, cause) == "Post \"" \o EndpointUrl(front) \o "\": " \o cause

\* an Error that gives the bare cause
ErrorTerse(e) == e.cause

\* err.Error(): the format strings of fronting.go lines 155-177, transport.go
\* lines 82 and 109, part_000 line 369; errors.New(msg) gives msg back
Error(e) ==
    IF e.kind = "fronting"
    THEN IF e.cause = "timed out after 8 seconds"
         THEN "request to " \o e.where \o " timed out after 8 seconds"
         ELSE IF e.cause = "network connection failed"
         THEN "network connection failed to " \o e.where \o ": "
                 \o UrlError(e.where, e.inner)
         ELSE IF e.cause = "request failed"
         THEN "request to " \o e.where \o " failed: " \o UrlError(e.where, e.inner)
         ELSE IF e.status = 403
         THEN "CDN blocked request to " \o e.where \o " (403 Forbidden)"
         ELSE IF e.status = 404
         THEN "endpoint not found on " \o e.where \o " (404 Not Found)"
         ELSE IF e.cause = "CDN gateway error"
         THEN "CDN gateway error " \o ToString(e.status) \o " for " \o e.where
         ELSE "server " \o e.where \o " returned status " \o ToString(e.status)
                 \o ": " \o e.inner
    ELSE IF e.kind = "mesh" /\ e.cause = "failed to send to any peer"
    THEN "failed to send to any peer: " \o e.inner
    ELSE e.cause

\* strings.Contains(s, substr)
Contains(s, substr) ==
    \E k \in 1 .. Len(s) - Len(substr) + 1 :
        SubSeq(s, k, k + Len(substr) - 1) = substr

\* a classifier that wants the whole message to be one of the signs
isBlockingErrorExact(e) ==
    IF e = NoErr THEN FALSE
    ELSE Error(e) \in {"502", "Bad Gateway", "blocked", "certificate"}

\* isBlockingError, part_000 lines 373-384
isBlockingError(e) ==
    IF e = NoErr THEN FALSE
    ELSE \/ Contains(Error(e), "502")
         \/ Contains(Error(e), "Bad Gateway")
         \/ Contains(Error(e), "blocked")
         \/ Contains(Error(e), "certificate")

\* errors.New(msg)
NewError(msg) == MkErr("errors", msg, 0, "", "")

\* Messages an error of a transport may carry: a middle part that is one of
\* the signs, close to one, or unrelated, between a prefix and a suffix.
Prefixes == {"", "... ", "x"}

Middles ==
    {"502", "Bad Gateway", "blocked", "certificate",
     "502 Bad Gateway", "blocked by policy", "certificate expired",
     "timeout", "connection refused", "dial tcp: no route",
     "50", "503", "bad gateway", "Bad  Gateway", "Blocked", "block",
     "Certificate", "unblocked"}

Suffixes == {"", " ...", "2"}

Messages ==
    {pre \o mid \o post : pre \in Prefixes, mid \in Middles, post \in Suffixes}

\* what fronting.Send can return on transport t
FrontingErrors(t) ==
    {FrontingResult(t, o) :
        o \in {Response(st) : st \in Statuses} \cup DoErrors \cup {DoCanceled}}

\* what mesh.Send can return
MeshErrors ==
    {NoErr, NoPeersErr, CtxErr}
        \cup {AnyPeerErr(why) :
                 why \in {NilError} \cup {PeerErr(o, Last(StaticPeers)) :
                                            o \in {"dial failed", "write failed"}}}

\* what t.Send of the transport at position j hands to the manager
SendErrors(j) ==
    (IF transports[j].kind = "fronting"
     THEN FrontingErrors(transports[j]) ELSE MeshErrors)
        \cup {NewError(msg) : msg \in Messages}

YesNo(b) == IF b THEN "yes" ELSE "no"

\* t.Send returned an error on some transport of the chain
ClassifyInit ==
    /\ currentIndex = 0
    /\ mu = NoOne
    /\ peers = Header(StaticPeers)
    /\ meshMu = NoOne
    /\ upc = "idle"
    /\ newPeers = << >>
    /\ CallInit
    /\ sentVia \in 0 .. N - 1
    /\ sendErr \in SendErrors(sentVia)
    /\ blocking = "unknown"
    /\ switched = "unknown"
    /\ sentTo = [c \in Callers |-> NoPeer]
    /\ DiscIdle
    /\ LaterIdle

\* part_000 line 362: t.Name() == "fronting" && isBlockingError(err); the
\* line is reached with a non-nil err only
Classify ==
    /\ blocking = "unknown"
    /\ blocking' = YesNo(isBlockingError(sendErr))
    /\ switched' = IF sendErr = NoErr THEN "not reached"
                   ELSE YesNo(Name(transports[sentVia]) = "fronting"
                                 /\ isBlockingError(sendErr))
    /\ UNCHANGED << mgrVars, callVars, meshVars, meshCall, sentVia, sendErr, sentTo,
                    discVars, laterVars >>

ClassifyNext == Classify

ClassifySpec == ClassifyInit /\ [][ClassifyNext]_vars

---------------------------------------------------------------------------
(* Package discovery, part_003: ServiceDiscovery (lines 136-259) and the   *)
(* AutoPeerManager that feeds its findings to a mesh transport (12-95).    *)

\* the answers an mDNS query can bring: the Name of the entry, its AddrV4
\* (NoAddr when the answer has none) and its Port
NoAddr == "<nil>"

\* every hydra node announces the same instance, part_003 line 195
EntryNames == {"nodeA", "Hydra Messenger._hydra-messenger._tcp.local."}

\* the IPv4 address getLocalIP found, part_003 lines 262-277
LocalIP == "192.168.1.10"

EntryAddrs == {NoAddr, "10.0.0.5", "10.0.0.6", "127.0.0.1", LocalIP}

\* sd.port, the mesh port the node was started with
MeshPort == 7100

Entries ==
    {[Name |-> n, AddrV4 |-> a, Port |-> MeshPort] :
        n \in EntryNames, a \in EntryAddrs}

\* fmt.Sprintf("%s:%d", entry.AddrV4.String(), entry.Port), line 249
PeerAddr(entry) == entry.AddrV4 \o ":" \o ToString(entry.Port)

\* sd.peers[name] = addr, line 252
MapSet(m, name, addr) ==
    [n \in DOMAIN m \cup {name} |-> IF n = name THEN addr ELSE m[n]]

\* the orders in which a range over a Go map can visit the keys
KeyOrders(keys) ==
    {order \in [1 .. Cardinality(keys) -> keys] :
        \A a, b \in 1 .. Cardinality(keys) : order[a] = order[b] => a = b}

\* ServiceDiscovery.GetPeers, lines 180-189: one address per key
GetPeers(m) == {[k \in DOMAIN order |-> m[order[k]]] : order \in KeyOrders(DOMAIN m)}

\* an updatePeerList that adds what was discovered to what the mesh has
ReconciledAppend(old, discoveredPeers) ==
    IF Len(discoveredPeers) > 0 THEN Header(old.ptr \o discoveredPeers) ELSE old

\* updatePeerList, lines 87-94: m.peers after the call
Reconciled(old, discoveredPeers) ==
    IF Len(discoveredPeers) > 0 THEN Header(discoveredPeers) ELSE old

\* a Stop that leaves discovery running
DiscoveryKeepsRunning == sdStopped

\* line 61: m.discovery.Stop() closes sd.stopChan
DiscoveryStop == TRUE

\* NewAutoPeerManager returned without error, lines 21-44: discovery is
\* started, the mesh transport has no peers, both loops run
DiscoveryInit ==
    /\ currentIndex = 0
    /\ mu = NoOne
    /\ peers = Header(<< >>)
    /\ meshMu = NoOne
    /\ upc = "idle"
    /\ newPeers = << >>
    /\ CallInit
    /\ ClassIdle
    /\ sentTo = [c \in Callers |-> NoPeer]
    /\ sdPeers = [n \in {} |-> ""]
    /\ sdStopped = FALSE
    /\ apmStopped = FALSE
    /\ tickPending = FALSE
    /\ recPc = "running"
    /\ discPc = "running"
    /\ queried = FALSE
    /\ stopPanic = FALSE
    /\ LaterIdle

discFrame == << mgrVars, callVars, meshCall, classVars, sentTo, laterVars >>

\* the 15-second ticker puts a tick in its channel, which holds one
TickerFires ==
    /\ ~apmStopped
    /\ ~tickPending
    /\ tickPending' = TRUE
    /\ UNCHANGED << discFrame, meshVars, sdPeers, sdStopped, apmStopped, recPc,
                    discPc, queried, stopPanic >>

\* autoUpdatePeers takes the tick and runs updatePeerList, lines 75-76 and
\* 82-95; UpdatePeers waits for the mesh transport's mutex
Reconcile ==
    /\ recPc = "running"
    /\ tickPending
    /\ meshMu = NoOne
    /\ tickPending' = FALSE
    /\ \E discoveredPeers \in GetPeers(sdPeers) :
          peers' = Reconciled(peers, discoveredPeers)
    /\ UNCHANGED << discFrame, meshMu, upc, newPeers, sdPeers, sdStopped,
                    apmStopped, recPc, discPc, queried, stopPanic >>

\* autoUpdatePeers sees stopChan closed, lines 73-74
ReconcilerExit ==
    /\ recPc = "running"
    /\ apmStopped
    /\ recPc' = "exited"
    /\ UNCHANGED << discFrame, meshVars, sdPeers, sdStopped, apmStopped,
                    tickPending, discPc, queried, stopPanic >>

\* AutoPeerManager.Stop, lines 58-62; closing a closed channel panics
Stop ==
    /\ ~stopPanic
    /\ IF apmStopped
       THEN /\ stopPanic' = TRUE
            /\ UNCHANGED << apmStopped, sdStopped >>
       ELSE /\ apmStopped' = TRUE
            /\ sdStopped' = DiscoveryStop
            /\ UNCHANGED stopPanic
    /\ UNCHANGED << discFrame, meshVars, sdPeers, tickPending, recPc, discPc,
                    queried >>

\* discoverServices at its 30-second tick starts a query, lines 241-246
QueryTick ==
    /\ discPc = "running"
    /\ queried' = TRUE
    /\ UNCHANGED << discFrame, meshVars, sdPeers, sdStopped, apmStopped,
                    tickPending, recPc, discPc, stopPanic >>

\* a loop that caches whatever answer it gets
HasAddrV4Always(entry) == TRUE

\* line 248: entry.AddrV4 != nil
HasAddrV4(entry) == entry.AddrV4 # NoAddr

\* discoverServices receives an entry from a query, lines 247-256
Discover(entry) ==
    /\ discPc = "running"
    /\ queried
    /\ sdPeers' = IF HasAddrV4(entry)
                  THEN MapSet(sdPeers, entry.Name, PeerAddr(entry))
                  ELSE sdPeers
    /\ UNCHANGED << discFrame, meshVars, sdStopped, apmStopped, tickPending,
                    recPc, discPc, queried, stopPanic >>

\* discoverServices sees stopChan closed, lines 239-240
DiscoverExit ==
    /\ discPc = "running"
    /\ sdStopped
    /\ discPc' = "exited"
    /\ UNCHANGED << discFrame, meshVars, sdPeers, sdStopped, apmStopped,
                    tickPending, recPc, queried, stopPanic >>

\* The mesh transport is also handed out by GetMeshTransport (lines 65-67),
\* so UpdatePeers can be called on it from outside.
DiscoveryNext ==
    \/ TickerFires
    \/ Reconcile
    \/ ReconcilerExit
    \/ Stop
    \/ QueryTick
    \/ \E entry \in Entries : Discover(entry)
    \/ DiscoverExit
    \/ \E list \in PeerInputs : UpdatePeers(list)
    \/ StoreFirst
    \/ StoreRest

DiscoverySpec == DiscoveryInit /\ [][DiscoveryNext]_vars

\* A select whose stop case is ready is not passed over for ever: stopChan
\* stays readable once closed, and Go picks among ready cases at random.
DiscoveryLiveSpec ==
    DiscoveryInit /\ [][DiscoveryNext]_vars
        /\ WF_vars(ReconcilerExit) /\ WF_vars(DiscoverExit)

---------------------------------------------------------------------------
(* ServiceDiscovery.Start and Stop, part_003 lines 155-177, on a discovery *)
(* made by discovery.New.                                                  *)

\* how Start can go: getLocalIP finds no address, the mDNS service or
\* server cannot be made, or all of it works
StartOutcomes == {"no local IP", "advertise failed", "ok"}

\* line 215: defer server.Shutdown() runs when advertiseService returns
ShutdownDeferred == TRUE

\* advertiseService, lines 192-218: whether the mDNS server runs once the
\* function has returned: it was made at line 207, and the defer has run
ServerAfterAdvertise(outcome) == outcome = "ok" /\ ~ShutdownDeferred

\* discovery.New, lines 145-152
StartInit ==
    /\ currentIndex = 0
    /\ mu = NoOne
    /\ peers = Header(<< >>)
    /\ meshMu = NoOne
    /\ upc = "idle"
    /\ newPeers = << >>
    /\ CallInit
    /\ ClassIdle
    /\ sentTo = [c \in Callers |-> NoPeer]
    /\ sdPeers = [n \in {} |-> ""]
    /\ sdStopped = FALSE
    /\ apmStopped = FALSE
    /\ tickPending = FALSE
    /\ recPc = "exited"
    /\ discPc = "new"
    /\ queried = FALSE
    /\ stopPanic = FALSE
    /\ announcing = FALSE
    /\ startResult = ""
    /\ ExceptStartIdle

startFrame ==
    << mgrVars, callVars, meshVars, meshCall, classVars, sentTo, exceptStart >>

\* Start, lines 155-172: the local address, the announcement, then the
\* query loop in a goroutine of its own
Start(outcome) ==
    /\ startResult = ""
    /\ IF outcome = "no local IP"
       THEN /\ startResult' = "failed to get local IP"
            /\ UNCHANGED << announcing, discPc >>
       ELSE IF outcome = "advertise failed"
       THEN /\ startResult' = "failed to advertise service"
            /\ UNCHANGED << announcing, discPc >>
       ELSE /\ startResult' = "ok"
            /\ announcing' = ServerAfterAdvertise(outcome)
            /\ discPc' = "running"
    /\ UNCHANGED << startFrame, sdPeers, sdStopped, apmStopped, tickPending,
                    recPc, queried, stopPanic >>

\* ServiceDiscovery.Stop, lines 175-177; closing a closed channel panics
SdStop ==
    /\ ~stopPanic
    /\ IF sdStopped
       THEN /\ stopPanic' = TRUE
            /\ UNCHANGED sdStopped
       ELSE /\ sdStopped' = TRUE
            /\ UNCHANGED stopPanic
    /\ UNCHANGED << startFrame, startVars, sdPeers, apmStopped, tickPending,
                    recPc, discPc, queried >>

StartNext ==
    \/ \E outcome \in StartOutcomes : Start(outcome)
    \/ SdStop
    \/ QueryTick
    \/ \E entry \in Entries : Discover(entry)
    \/ DiscoverExit

StartSpec == StartInit /\ [][StartNext]_vars

---------------------------------------------------------------------------
(* One Send of one fronting transport, fronting.go lines 35-182: the       *)
(* request it builds, the connection its client dials, what the server on  *)
(* the front sees and what Send makes of the answer.                       *)

\* fronting.New(frontDomain, hiddenDomain), lines 102-112
FrontingNew(frontDomain, hiddenDomain) ==
    [kind |-> "fronting", FrontDomain |-> frontDomain,
     HiddenDomain |-> hiddenDomain]

FrontChoices == {"a", "cdn.example.com", "ajax.googleapis.com"}

HiddenChoices == {"h", "secret-chat.appspot.com"}

\* the payloads, as bytes
Payloads == {<< >>, << 116, 101, 115, 116 >>, << 0, 255 >>}

\* the statuses a server on the front can answer with
AnyStatuses == Statuses \cup {201, 429}

\* position of the first "/" of s, Len(s) + 1 when it has none
FirstSlash(s) ==
    CHOOSE k \in 1 .. Len(s) + 1 :
        /\ k = Len(s) + 1 \/ SubSeq(s, k, k) = "/"
        /\ \A j \in 1 .. k - 1 : SubSeq(s, j, j) # "/"

\* what follows "https://" in url
AfterScheme(url) == SubSeq(url, Len("https://") + 1, Len(url))

\* the address net/http dials for an https URL: its host, with the port of
\* the scheme when the URL names none
CanonicalAddr(url) ==
    LET host == SubSeq(AfterScheme(url), 1, FirstSlash(AfterScheme(url)) - 1)
    IN  IF Contains(host, ":") THEN host ELSE host \o ":443"

\* the path of url
UrlPath(url) ==
    SubSeq(AfterScheme(url), FirstSlash(AfterScheme(url)), Len(AfterScheme(url)))

\* a Send that leaves the Host header to the URL
RequestHostFromUrl(t) == t.FrontDomain

\* line 137: req.Host = t.HiddenDomain
RequestHost(t) == t.HiddenDomain

\* lines 130-144: the request Send makes
Request(t, data) ==
    [Method |-> "POST", URL |-> EndpointUrl(t.FrontDomain), Host |-> RequestHost(t),
     ContentType |-> "application/octet-stream", Body |-> data]

\* lines 85-87: the ServerName of the TLS handshake
ServerName(t) == t.FrontDomain

\* what the server that took the connection sees of req
Seen(t, req) ==
    [addr |-> CanonicalAddr(req.URL), sni |-> ServerName(t), method |-> req.Method,
     path |-> UrlPath(req.URL), host |-> req.Host, body |-> req.Body]

\* Send is about to be called on a transport made by New
FrontingInit ==
    /\ currentIndex = 0
    /\ mu = NoOne
    /\ peers = Header(StaticPeers)
    /\ meshMu = NoOne
    /\ upc = "idle"
    /\ newPeers = << >>
    /\ CallInit
    /\ ClassIdle
    /\ DiscIdle
    /\ sentTo = [c \in Callers |-> NoPeer]
    /\ ExceptFrIdle
    /\ frT \in {FrontingNew(f, h) : f \in FrontChoices, h \in HiddenChoices}
    /\ frData \in Payloads
    /\ frPc = "new"
    /\ frSeen = Nothing
    /\ frOut = Nothing
    /\ frErr = Pending

frFrame ==
    << mgrVars, callVars, meshVars, meshCall, classVars, discVars, sentTo,
       exceptFr >>

\* lines 130-151: the request is made and client.Do dials the front through
\* DialTLSContext; the dial fails on every resolver, or the connection
\* stands and the request goes out
FrDo ==
    /\ frPc = "new"
    /\ \/ /\ frOut' = DoError(FALSE, "all DNS servers failed")
          /\ frErr' = FrontingResult(frT, frOut')
          /\ frPc' = "done"
          /\ UNCHANGED frSeen
       \/ /\ frSeen' = Seen(frT, Request(frT, frData))
          /\ frPc' = "sent"
          /\ UNCHANGED << frOut, frErr >>
    /\ UNCHANGED << frFrame, frT, frData >>

\* lines 151-181: the answer, or the timeout of 8 seconds
FrAnswer ==
    /\ frPc = "sent"
    /\ \E o \in {Response(st) : st \in AnyStatuses}
                 \cup {DoError(TRUE, "context deadline exceeded")} :
          /\ frOut' = o
          /\ frErr' = FrontingResult(frT, o)
    /\ frPc' = "done"
    /\ UNCHANGED << frFrame, frT, frData, frSeen >>

FrontingNext == FrDo \/ FrAnswer

FrontingSpec == FrontingInit /\ [][FrontingNext]_vars

---------------------------------------------------------------------------
(* Connect: MeshTransport.Connect (transport.go lines 54-78),              *)
(* fronting.Transport.Connect (fronting.go lines 119-122),                 *)
(* TransportManager.Connect (part_000 lines 305-316) and                   *)
(* AutoPeerManager.Start (part_003 lines 47-55), which connects the mesh   *)
(* transport itself.  No code of the repository closes a listener.         *)

\* how many listening sockets the process may open
MaxSockets == 3

\* net.InterfaceAddrs: it fails, or lists no IPv4 address off loopback, or one
AddrsOutcomes == {"failed", "none", "found"}

\* net.Listen("tcp", ":0")
ListenOutcomes == {"failed", "ok"}

\* transport.go line 58
AddrsErr ==
    MkErr("mesh", "failed to get interface addresses", 0, "",
          "route ip+net: netlinkrib: too many open files")

\* transport.go line 73
ListenErr ==
    MkErr("mesh", "failed to start mesh listener", 0, "",
          "listen tcp :0: socket: too many open files")

ConnectErrors == {NoErr, AddrsErr, ListenErr}

\* the ports the kernel may give a listener on ":0"
EphemeralPorts == {40000, 40001}

\* the meshPort a node is started with
MeshPorts == {MeshPort, 40000}

\* the socket a successful net.Listen returns: one that was not open before
NewSocket == Cardinality(sockets) + 1

\* MeshTransport.Connect returning e.  Line 71 assigns both results of
\* net.Listen: the new socket, or nil with the error; what m.listener held
\* before is not closed.
MeshConnect(addrs, listen, e) ==
    IF addrs = "failed"
    THEN /\ e = AddrsErr
         /\ UNCHANGED << listener, sockets, currentIP, boundPort >>
    ELSE /\ currentIP' = IF addrs = "found" THEN LocalIP ELSE currentIP
         /\ IF listen = "ok"
            THEN /\ Cardinality(sockets) < MaxSockets
                 /\ sockets' = sockets \cup {NewSocket}
                 /\ listener' = NewSocket
                 /\ \E port \in EphemeralPorts : boundPort' = port
                 /\ e = NoErr
            ELSE /\ sockets' = sockets
                 /\ listener' = NoSocket
                 /\ boundPort' = NoPort
                 /\ e = ListenErr

\* fronting.Transport.Connect: the client is ready since New; nil
FrontingConnect(e) ==
    /\ e = NoErr
    /\ UNCHANGED << listener, sockets, currentIP, boundPort >>

\* t.Connect(ctx) returning e
TransportConnect(t, e) ==
    IF t.kind = "fronting"
    THEN FrontingConnect(e)
    ELSE \E addrs \in AddrsOutcomes, listen \in ListenOutcomes :
            MeshConnect(addrs, listen, e)

\* a Connect that gives back the first failure of the loop
ConnectResultFirst(failed) ==
    IF failed = << >> THEN NoErr
    ELSE MkErr("manager", "failed to connect", 0, "", ToString(failed[1]))

\* part_000 line 315: return nil
ConnectResult(failed) == NoErr

\* the holder of TransportManager.mu while Connect runs
Connecting == "connect"

ConnectInit ==
    /\ currentIndex = 0
    /\ mu = NoOne
    /\ peers = Header(StaticPeers)
    /\ meshMu = NoOne
    /\ upc = "idle"
    /\ newPeers = << >>
    /\ CallInit
    /\ ClassIdle
    /\ DiscIdle
    /\ sentTo = [c \in Callers |-> NoPeer]
    /\ ExceptConnIdle
    /\ ConnIdle

connFrame ==
    << currentIndex, callVars, meshVars, meshCall, classVars, discVars, sentTo,
       exceptConn >>

\* part_000 lines 306-310: m.mu.Lock(), and the loop is entered
MgrConnect ==
    /\ connPc \in {"idle", "done"}
    /\ mu = NoOne
    /\ mu' = Connecting
    /\ connPc' = "loop"
    /\ connIdx' = 0
    /\ connected' = << >>
    /\ warned' = << >>
    /\ connResult' = Pending
    /\ UNCHANGED << connFrame, listener, sockets, currentIP, boundPort, sdPort >>

\* lines 310-314: one iteration; a failure is logged and the loop goes on
MgrConnectStep ==
    /\ connPc = "loop"
    /\ connIdx < N
    /\ connected' = Append(connected, connIdx)
    /\ \E e \in ConnectErrors :
          /\ TransportConnect(transports[connIdx], e)
          /\ warned' = IF e = NoErr THEN warned ELSE Append(warned, connIdx)
    /\ connIdx' = connIdx + 1
    /\ UNCHANGED << connFrame, mu, connPc, connResult, sdPort >>

\* line 315, and the deferred Unlock
MgrConnectReturn ==
    /\ connPc = "loop"
    /\ connIdx = N
    /\ connResult' = ConnectResult(warned)
    /\ connPc' = "done"
    /\ mu' = NoOne
    /\ UNCHANGED << connFrame, listener, sockets, currentIP, connIdx, connected,
                    warned, boundPort, sdPort >>

\* AutoPeerManager.Start, part_003 lines 47-55: m.mesh.Connect
ApmStart ==
    /\ \E e \in ConnectErrors :
          \E addrs \in AddrsOutcomes, listen \in ListenOutcomes :
             MeshConnect(addrs, listen, e)
    /\ UNCHANGED << connFrame, mu, connPc, connIdx, connected, warned, connResult,
                    sdPort >>

\* NewAutoPeerManager, part_003 lines 21-44: discovery gets meshPort as the
\* port to announce (lines 23 and 199); when discovery cannot start there
\* is no manager
NewAutoPeerManager(meshPort, ok) ==
    /\ sdPort = NoPort
    /\ sdPort' = IF ok THEN meshPort ELSE NoPort
    /\ UNCHANGED << connFrame, mu, listener, sockets, currentIP, connPc, connIdx,
                    connected, warned, connResult, boundPort >>

\* the Port of the service record advertiseService builds, line 199
AnnouncedPort == sdPort

ConnectNext ==
    \/ \E meshPort \in MeshPorts, ok \in BOOLEAN : NewAutoPeerManager(meshPort, ok)
    \/ MgrConnect
    \/ MgrConnectStep
    \/ MgrConnectReturn
    \/ ApmStart

ConnectSpec == ConnectInit /\ [][ConnectNext]_vars

---------------------------------------------------------------------------
(* The manager over transports whose IsAvailable may answer false, as the  *)
(* interface transport.Transport (transport.go lines 6-19) lets them; the  *)
(* two implementations of the repository always answer true.  GetStatus,   *)
(* part_000 lines 415-428.                                                 *)

\* one answer per position: all available, none, one front out, the mesh
\* transport out, only the mesh transport in
AvailPatterns ==
    { [j \in 0 .. N - 1 |-> TRUE],
      [j \in 0 .. N - 1 |-> FALSE],
      [j \in 0 .. N - 1 |-> j # 1],
      [j \in 0 .. N - 1 |-> j # 3],
      [j \in 0 .. N - 1 |-> j # N - 1],
      [j \in 0 .. N - 1 |-> j = N - 1] }

\* lines 421-425 for the first k transports of the chain: each writes the
\* entry of its name
RECURSIVE StatusAfter(_)
StatusAfter(k) ==
    IF k = 0 THEN NoStatus
    ELSE MapSet(StatusAfter(k - 1), Name(transports[k - 1]),
                IF IsAvailableAt(k - 1) THEN "available" ELSE "unavailable")

\* GetStatus, the whole call under m.mu
GetStatus(c) ==
    /\ pc[c] = "idle"
    /\ CanLock(c)
    /\ status' = [status EXCEPT ![c] = StatusAfter(N)]
    /\ UNCHANGED << mgrVars, callVars, meshVars, meshCall, classVars, discVars,
                    sentTo, exceptAvail, available >>

AvailInit ==
    /\ currentIndex = 0
    /\ mu = NoOne
    /\ peers = Header(StaticPeers)
    /\ meshMu = NoOne
    /\ upc = "idle"
    /\ newPeers = << >>
    /\ CallInit
    /\ ClassIdle
    /\ DiscIdle
    /\ sentTo = [c \in Callers |-> NoPeer]
    /\ ExceptAvailIdle
    /\ available \in AvailPatterns
    /\ status = [c \in Callers |-> NoStatus]

AvailNext ==
    \/ Next
    \/ \E c \in Callers : GetStatus(c)

AvailSpec == AvailInit /\ [][AvailNext]_vars

---------------------------------------------------------------------------
(* Verification codes, part_002 lines 149-238: CreateSMSVerification and   *)
(* ValidateSMSVerification, and their twins for e-mail, which differ in    *)
(* the name of the table and of the column only.  The HTTP handlers of     *)
(* server.go (lines 1041, 1076, 1115, 1169) call them, each request in a   *)
(* goroutine of its own, and every statement is a db.Exec or db.QueryRow   *)
(* of its own: there is no transaction.                                    *)

\* the six-digit codes handed out
Codes == {"123456", "654321"}

\* how far the clock runs, in units of ten minutes
MaxTime == 2

\* line 150: 10 * time.Minute, in units of ten minutes
TenMinutes == 1

\* DELETE FROM ... WHERE phone = $1
DeleteWhere(rows, contact) ==
    LET Other(r) == r.contact # contact IN SelectSeq(rows, Other)

\* UPDATE ... SET verified = TRUE WHERE phone = $1 AND code = $2
MarkVerified(rows, contact, code) ==
    [k \in 1 .. Len(rows) |->
        IF rows[k].contact = contact /\ rows[k].code = code
        THEN [rows[k] EXCEPT !.verified = TRUE]
        ELSE rows[k]]

\* SELECT ... WHERE phone = $1 AND verified = FALSE ORDER BY created_at DESC
\* LIMIT 1: the row, or NoRow for sql.ErrNoRows
NewestUnverified(rows, contact) ==
    LET found == {k \in 1 .. Len(rows) :
                     rows[k].contact = contact /\ ~rows[k].verified}
    IN  IF found = {} THEN NoRow
        ELSE rows[CHOOSE k \in found : \A h \in found : k >= h]

\* lines 172-188: what Validate decides before it marks the row
Verdict(rows, contact, code, t) ==
    LET r == NewestUnverified(rows, contact)
    IN  IF r = NoRow THEN "invalid or expired code"
        ELSE IF t > r.expiresAt THEN "code expired"
        ELSE IF r.code # code THEN "invalid code"
        ELSE "ok"

verFrame ==
    << mgrVars, callVars, meshVars, meshCall, classVars, discVars, sentTo,
       exceptVer >>

\* lines 150-156: expiresAt, then the DELETE; a failed Exec returns at once
CreateDelete(h, contact, code, ok) ==
    /\ hpc[h] = "idle"
    /\ IF ok
       THEN /\ table' = [table EXCEPT ![TableOf(contact)] = DeleteWhere(@, contact)]
            /\ hArg' = [hArg EXCEPT ![h] = Row(contact, code, now + TenMinutes, FALSE)]
            /\ hpc' = [hpc EXCEPT ![h] = "deleted"]
       ELSE UNCHANGED << table, hArg, hpc >>
    /\ UNCHANGED << verFrame, now, hOut, latest >>

\* lines 158-165: the INSERT, and the return
CreateInsert(h, ok) ==
    /\ hpc[h] = "deleted"
    /\ IF ok
       THEN /\ table' = [table EXCEPT ![TableOf(hArg[h].contact)] = Append(@, hArg[h])]
            /\ latest' = [latest EXCEPT ![hArg[h].contact] = hArg[h].code]
       ELSE UNCHANGED << table, latest >>
    /\ hpc' = [hpc EXCEPT ![h] = "idle"]
    /\ hArg' = [hArg EXCEPT ![h] = NoRow]
    /\ UNCHANGED << verFrame, now, hOut >>

\* lines 169-188: the SELECT and the two tests
ValidateSelect(h, contact, code) ==
    /\ hpc[h] = "idle"
    /\ LET v == Verdict(table[TableOf(contact)], contact, code, now)
       IN  IF v = "ok"
           THEN /\ hpc' = [hpc EXCEPT ![h] = "selected"]
                /\ hArg' = [hArg EXCEPT ![h] = Row(contact, code, 0, FALSE)]
                /\ UNCHANGED hOut
           ELSE /\ hOut' = v
                /\ UNCHANGED << hpc, hArg >>
    /\ UNCHANGED << verFrame, table, now, latest >>

\* lines 190-194: the UPDATE, and return true
ValidateUpdate(h, ok) ==
    /\ hpc[h] = "selected"
    /\ IF ok
       THEN /\ table' = [table EXCEPT ![TableOf(hArg[h].contact)] =
                               MarkVerified(@, hArg[h].contact, hArg[h].code)]
            /\ hOut' = "ok"
       ELSE /\ hOut' = "failed to mark code as verified"
            /\ UNCHANGED table
    /\ hpc' = [hpc EXCEPT ![h] = "idle"]
    /\ hArg' = [hArg EXCEPT ![h] = NoRow]
    /\ UNCHANGED << verFrame, now, latest >>

\* ten minutes pass
Tick ==
    /\ now < MaxTime
    /\ now' = now + 1
    /\ UNCHANGED << verFrame, table, hpc, hArg, hOut, latest >>

VerInit ==
    /\ currentIndex = 0
    /\ mu = NoOne
    /\ peers = Header(StaticPeers)
    /\ meshMu = NoOne
    /\ upc = "idle"
    /\ newPeers = << >>
    /\ CallInit
    /\ ClassIdle
    /\ DiscIdle
    /\ sentTo = [c \in Callers |-> NoPeer]
    /\ ExceptVerIdle
    /\ VerIdle

VerNext ==
    \/ \E h \in Callers, contact \in Contacts, code \in Codes, ok \in BOOLEAN :
          CreateDelete(h, contact, code, ok)
    \/ \E h \in Callers, ok \in BOOLEAN : CreateInsert(h, ok)
    \/ \E h \in Callers, contact \in Contacts, code \in Codes :
          ValidateSelect(h, contact, code)
    \/ \E h \in Callers, ok \in BOOLEAN : ValidateUpdate(h, ok)
    \/ Tick

VerSpec == VerInit /\ [][VerNext]_vars

---------------------------------------------------------------------------
(* Server.handleSend, server.go lines 333-350: Send, then                  *)
(* GetCurrentTransport for the "transport" field of the response; each     *)
(* takes m.mu for itself.                                                  *)

\* server.go lines 336-348, after Send has returned to handler c
HandleSendReport(c) ==
    /\ pc[c] = "done"
    /\ op[c] = "Send"
    /\ CanLock(c)
    /\ telemetry' =
          [telemetry EXCEPT ![c] =
              Report(Name(GetCurrentTransport),
                     IF result[c] = NoErr
                     THEN Name(transports[Last(attempts[c])]) ELSE "",
                     result[c] = NoErr)]
    /\ UNCHANGED << mgrVars, callVars, meshVars, meshCall, classVars, discVars,
                    sentTo, exceptTel >>

HandlerInit ==
    /\ Init

HandlerNext ==
    \/ Next
    \/ \E c \in Callers : HandleSendReport(c)

HandlerSpec == HandlerInit /\ [][HandlerNext]_vars

---------------------------------------------------------------------------
(* The manager's mutex seen from those who wait for it: part_000 lines     *)
(* 333-335, 387-389, 399-401 and 415-417.  Every method begins with        *)
(* m.mu.Lock() and defer m.mu.Unlock(), so a call waits while another      *)
(* holds the mutex and gives it back when it returns.                      *)

\* the methods other than Send, which do all their work under m.mu
Guarded == {"GetStatus", "GetCurrentTransport", "SwitchTo"}

\* a call of one of them has come to m.mu.Lock()
Enter(c, method, name) ==
    /\ pc[c] = "idle"
    /\ pc' = [pc EXCEPT ![c] = "wait"]
    /\ op' = [op EXCEPT ![c] = method]
    /\ switchArg' = [switchArg EXCEPT ![c] = IF method = "SwitchTo" THEN name ELSE ""]
    /\ UNCHANGED << mgrVars, i, cancelled, attempts, err, result, delivered,
                    cancelPoint, meshVars, checkedLen, ranged, peerIdx, lastError,
                    classVars, discVars, sentTo, exceptSw >>

\* m.mu.Lock() returns, the body of the method runs, and its return runs
\* the deferred m.mu.Unlock(); what GetStatus and GetCurrentTransport hand
\* back is not kept
Serve(c) ==
    /\ pc[c] = "wait"
    /\ CanLock(c)
    /\ IF op[c] = "SwitchTo" /\ Named(switchArg[c]) # {}
       THEN currentIndex' = Lowest(Named(switchArg[c]))
       ELSE UNCHANGED currentIndex
    /\ Return(c, IF op[c] = "SwitchTo" /\ Named(switchArg[c]) = {}
                 THEN NotFoundErr ELSE NoErr)
    /\ UNCHANGED << i, cancelled, attempts, err, delivered, cancelPoint, meshVars,
                    meshCall, classVars, discVars, sentTo, laterVars >>

\* the steps of a Send that holds the mutex; each transport send returns
Running(c) ==
    \/ Select(c)
    \/ FrontingSend(c)
    \/ FrontingResponse(c)
    \/ MeshSend(c)
    \/ MeshRange(c)
    \/ MeshSelect(c)
    \/ MeshDial(c)

MutexInit ==
    /\ Init

MutexNext ==
    \/ \E c \in Callers : Send(c)
    \/ \E c \in Callers : Lock(c)
    \/ \E c \in Callers : Running(c)
    \/ \E c \in Callers : Cancel(c)
    \/ \E c \in Callers, method \in Guarded, name \in SwitchNames :
          Enter(c, method, name)
    \/ \E c \in Callers : Serve(c)
    \/ \E c \in Callers : Done(c)

\* A Send that holds the mutex goes on, since each transport send returns.
\* A call that waits at m.mu.Lock() gets the mutex if it is free again and
\* again: sync.Mutex hands the mutex to a goroutine that has waited for more
\* than a millisecond (its starvation mode).
MutexSpec ==
    MutexInit /\ [][MutexNext]_vars
        /\ \A c \in Callers :
              WF_vars(Running(c)) /\ SF_vars(Lock(c)) /\ SF_vars(Serve(c))

---------------------------------------------------------------------------
(* Connections and what becomes of them: the DialTLSContext of a fronting  *)
(* transport (fronting.go lines 54-99) under one Send (lines 129-182),     *)
(* and the connections of one mesh Send (transport.go lines 80-110).       *)

\* a dialer that asks the public resolvers before the system's
ResolversPublicFirst == << "8.8.8.8:53", "1.1.1.1:53", "9.9.9.9:53", "" >>

\* fronting.go line 56: dnsServers; "" is the system's resolver
Resolvers == << "", "8.8.8.8:53", "1.1.1.1:53", "9.9.9.9:53" >>

\* the transport whose Send is followed: the first of the chain
WireT == frontingTransports[0]

\* line 98
DialExhausted(addr) == "all DNS servers failed for " \o addr

\* a handshake failure that forgets the socket
TcpLeftOpen(open, k) == open

\* line 91: tcpConn.Close()
TcpClosed(open, k) == open \ {k}

wireFrame ==
    << mgrVars, callVars, meshVars, meshCall, classVars, discVars, sentTo,
       exceptWire >>

wireMesh == << mPc, mIdx, mConns, mLast, mCtxDone, mErr >>

wireFront ==
    << dPc, dIdx, tried, outcomes, tcpOpen, used, dSni, dStatus, bodyOpen, dErr >>

\* Send, lines 130-149: client.Do needs a connection and calls DialTLSContext
WireSend ==
    /\ dPc = "idle"
    /\ dPc' = "dialing"
    /\ dIdx' = 1
    /\ UNCHANGED << wireFrame, wireMesh, tried, outcomes, tcpOpen, used, dSni,
                    dStatus, bodyOpen, dErr >>

\* lines 58-82: the dialer of this resolver, and dialer.DialContext
DialTcp(ok) ==
    /\ dPc = "dialing"
    /\ dIdx <= Len(Resolvers)
    /\ tried' = Append(tried, Resolvers[dIdx])
    /\ IF ok
       THEN /\ tcpOpen' = tcpOpen \cup {dIdx}
            /\ dPc' = "handshake"
            /\ UNCHANGED << dIdx, outcomes >>
       ELSE /\ outcomes' = Append(outcomes, "dial failed")
            /\ dIdx' = dIdx + 1
            /\ UNCHANGED << tcpOpen, dPc >>
    /\ UNCHANGED << wireFrame, wireMesh, used, dSni, dStatus, bodyOpen, dErr >>

\* lines 84-95: tls.Client with ServerName frontDomain, and the handshake
Handshake(ok) ==
    /\ dPc = "handshake"
    /\ dSni' = ServerName(WireT)
    /\ IF ok
       THEN /\ used' = dIdx
            /\ outcomes' = Append(outcomes, "ok")
            /\ dPc' = "connected"
            /\ UNCHANGED << dIdx, tcpOpen >>
       ELSE /\ tcpOpen' = TcpClosed(tcpOpen, dIdx)
            /\ outcomes' = Append(outcomes, "handshake failed")
            /\ dIdx' = dIdx + 1
            /\ dPc' = "dialing"
            /\ UNCHANGED used
    /\ UNCHANGED << wireFrame, wireMesh, tried, dStatus, bodyOpen, dErr >>

\* line 98: the range is over; client.Do fails with it and Send returns
DialFails ==
    /\ dPc = "dialing"
    /\ dIdx > Len(Resolvers)
    /\ dErr' = FrontingResult(WireT,
                  DoError(FALSE, DialExhausted(CanonicalAddr(EndpointUrl(WireT.FrontDomain)))))
    /\ dPc' = "done"
    /\ UNCHANGED << wireFrame, wireMesh, dIdx, tried, outcomes, tcpOpen, used, dSni,
                    dStatus, bodyOpen >>

\* line 151 over the connection: a response, whose body is open, or an error
RoundTrip(o) ==
    /\ dPc = "connected"
    /\ IF o.resp
       THEN /\ dStatus' = o.status
            /\ bodyOpen' = TRUE
            /\ dPc' = "responded"
            /\ UNCHANGED dErr
       ELSE /\ dErr' = FrontingResult(WireT, o)
            /\ dPc' = "done"
            /\ UNCHANGED << dStatus, bodyOpen >>
    /\ UNCHANGED << wireFrame, wireMesh, dIdx, tried, outcomes, tcpOpen, used, dSni >>

\* lines 161-181: the result, and the deferred resp.Body.Close()
WireSendReturn ==
    /\ dPc = "responded"
    /\ dErr' = FrontingResult(WireT, Response(dStatus))
    /\ bodyOpen' = FALSE
    /\ dPc' = "done"
    /\ UNCHANGED << wireFrame, wireMesh, dIdx, tried, outcomes, tcpOpen, used, dSni,
                    dStatus >>

\* transport.go lines 81-87 with the peers of New: the range is entered
WireMeshSend ==
    /\ mPc = "idle"
    /\ mPc' = "loop"
    /\ mIdx' = 1
    /\ UNCHANGED << wireFrame, wireFront, mConns, mLast, mCtxDone, mErr >>

\* the caller's context is cancelled
WireCancel ==
    /\ mPc \in {"loop", "write"}
    /\ ~mCtxDone
    /\ mCtxDone' = TRUE
    /\ UNCHANGED << wireFrame, wireFront, mPc, mIdx, mConns, mLast, mErr >>

\* lines 88-96: the select, then net.DialTimeout
WireMeshDial(ok) ==
    /\ mPc = "loop"
    /\ mIdx <= Len(StaticPeers)
    /\ IF mCtxDone
       THEN /\ mErr' = CtxErr
            /\ mPc' = "done"
            /\ UNCHANGED << mIdx, mConns, mLast >>
       ELSE IF ok
       THEN /\ mConns' = mConns \cup {StaticPeers[mIdx]}
            /\ mPc' = "write"
            /\ UNCHANGED << mIdx, mLast, mErr >>
       ELSE /\ mLast' = PeerErr("dial failed", StaticPeers[mIdx])
            /\ mIdx' = mIdx + 1
            /\ UNCHANGED << mPc, mConns, mErr >>
    /\ UNCHANGED << wireFrame, wireFront, mCtxDone >>

\* lines 98-105: conn.Write, conn.Close, and the return of nil
WireMeshWrite(ok) ==
    /\ mPc = "write"
    /\ mConns' = mConns \ {StaticPeers[mIdx]}
    /\ IF ok
       THEN /\ mErr' = NoErr
            /\ mPc' = "done"
            /\ UNCHANGED << mIdx, mLast >>
       ELSE /\ mLast' = PeerErr("write failed", StaticPeers[mIdx])
            /\ mIdx' = mIdx + 1
            /\ mPc' = "loop"
            /\ UNCHANGED mErr
    /\ UNCHANGED << wireFrame, wireFront, mCtxDone >>

\* line 109: the range is over
WireMeshFails ==
    /\ mPc = "loop"
    /\ mIdx > Len(StaticPeers)
    /\ mErr' = AnyPeerErr(mLast)
    /\ mPc' = "done"
    /\ UNCHANGED << wireFrame, wireFront, mIdx, mConns, mLast, mCtxDone >>

WireInit ==
    /\ currentIndex = 0
    /\ mu = NoOne
    /\ peers = Header(StaticPeers)
    /\ meshMu = NoOne
    /\ upc = "idle"
    /\ newPeers = << >>
    /\ CallInit
    /\ ClassIdle
    /\ DiscIdle
    /\ sentTo = [c \in Callers |-> NoPeer]
    /\ ExceptWireIdle
    /\ WireIdle

WireNext ==
    \/ WireSend
    \/ \E ok \in BOOLEAN : DialTcp(ok)
    \/ \E ok \in BOOLEAN : Handshake(ok)
    \/ DialFails
    \/ \E o \in {Response(s) : s \in Statuses} \cup DoErrors : RoundTrip(o)
    \/ WireSendReturn
    \/ WireMeshSend
    \/ WireCancel
    \/ \E ok \in BOOLEAN : WireMeshDial(ok)
    \/ \E ok \in BOOLEAN : WireMeshWrite(ok)
    \/ WireMeshFails

WireSpec == WireInit /\ [][WireNext]_vars

---------------------------------------------------------------------------
(* Invites, part_002 lines 90-146 (src/pkg/storage/storage.go lines 71-105 *)
(* is the same code for another database driver): CreateInvite,            *)
(* ValidateInvite and CreateUser, and handleRegister of server.go lines    *)
(* 116-154, which calls the last two.  Each request runs in a goroutine of *)
(* its own and every statement is a db.Exec or db.QueryRow of its own:     *)
(* there is no transaction and no lock.                                    *)

\* SELECT contact_info, expires_at FROM invites WHERE token = $1: the row, or
\* NoInvite for sql.ErrNoRows (token is the primary key)
InviteOf(rows, token) ==
    IF \E r \in rows : r.token = token
    THEN CHOOSE r \in rows : r.token = token
    ELSE NoInvite

\* lines 127-137: the row CreateUser inserts for a contact
UserOf(contactInfo) ==
    IF Contains(contactInfo, "@")
    THEN [email |-> contactInfo, phone |-> ""]
    ELSE [email |-> "", phone |-> contactInfo]

\* part_002 lines 46-47: email TEXT UNIQUE, phone TEXT UNIQUE
UniqueViolated(rows, u) ==
    \E r \in rows : r.email = u.email \/ r.phone = u.phone

invFrame ==
    << mgrVars, callVars, meshVars, meshCall, classVars, discVars, sentTo,
       exceptInv >>

\* lines 90-99: the token, expiresAt and the INSERT
CreateInvite(contactInfo, ok) ==
    /\ issued < MaxInvites
    /\ issued' = issued + 1
    /\ IF ok
       THEN invites' = invites \cup
                {Invite(Token(issued + 1), contactInfo, today + TwentyFourHours)}
       ELSE UNCHANGED invites
    /\ UNCHANGED << invFrame, today, ipc, iArg, iOut, granted, completed, users >>

\* server.go line 136 and part_002 lines 106-114: the SELECT and the test of
\* the expiry; either failure is answered "Invalid or expired token"
InviteSelect(h, token) ==
    /\ ipc[h] = "idle"
    /\ granted[token] < MaxGrants
    /\ LET r == InviteOf(invites, token)
       IN  IF r = NoInvite \/ today > r.expiresAt
           THEN /\ iOut' = [iOut EXCEPT ![h] = "Invalid or expired token"]
                /\ UNCHANGED << ipc, iArg >>
           ELSE /\ ipc' = [ipc EXCEPT ![h] = "selected"]
                /\ iArg' = [iArg EXCEPT ![h] = r]
                /\ iOut' = [iOut EXCEPT ![h] = ""]
    /\ UNCHANGED << invFrame, invites, issued, today, granted, completed, users >>

\* lines 117-123: the DELETE, whose failure is only logged, and the return of
\* contactInfo
InviteDelete(h, ok) ==
    /\ ipc[h] = "selected"
    /\ IF ok
       THEN invites' = {r \in invites : r.token # iArg[h].token}
       ELSE UNCHANGED invites
    /\ granted' = [granted EXCEPT ![iArg[h].token] = @ + 1]
    /\ ipc' = [ipc EXCEPT ![h] = "validated"]
    /\ UNCHANGED << invFrame, issued, today, iArg, iOut, completed, users >>

\* server.go lines 143-153 and part_002 lines 126-146: CreateUser and the
\* answer
CreateUser(h, ok) ==
    /\ ipc[h] = "validated"
    /\ LET u == UserOf(iArg[h].contactInfo)
       IN  IF ok /\ ~UniqueViolated(users, u)
           THEN /\ users' = users \cup {u}
                /\ completed' = [completed EXCEPT ![iArg[h].token] = @ + 1]
                /\ iOut' = [iOut EXCEPT ![h] = "success"]
           ELSE /\ iOut' = [iOut EXCEPT ![h] = "Failed to create user"]
                /\ UNCHANGED << users, completed >>
    /\ ipc' = [ipc EXCEPT ![h] = "idle"]
    /\ iArg' = [iArg EXCEPT ![h] = NoInvite]
    /\ UNCHANGED << invFrame, invites, issued, today, granted >>

\* a day passes
NextDay ==
    /\ today < MaxDays
    /\ today' = today + 1
    /\ UNCHANGED << invFrame, invites, issued, ipc, iArg, iOut, granted,
                    completed, users >>

InviteInit ==
    /\ currentIndex = 0
    /\ mu = NoOne
    /\ peers = Header(StaticPeers)
    /\ meshMu = NoOne
    /\ upc = "idle"
    /\ newPeers = << >>
    /\ CallInit
    /\ ClassIdle
    /\ DiscIdle
    /\ sentTo = [c \in Callers |-> NoPeer]
    /\ ExceptInvIdle
    /\ InvIdle

InviteNext ==
    \/ \E contactInfo \in Contacts, ok \in BOOLEAN : CreateInvite(contactInfo, ok)
    \/ \E h \in Callers, token \in Tokens : InviteSelect(h, token)
    \/ \E h \in Callers, ok \in BOOLEAN : InviteDelete(h, ok)
    \/ \E h \in Callers, ok \in BOOLEAN : CreateUser(h, ok)
    \/ NextDay

InviteSpec == InviteInit /\ [][InviteNext]_vars

---------------------------------------------------------------------------
(* The claims.                                                             *)

\* positions 0, 1, 2, ... each once, in the order of the chain
InChainOrder(seq) == \A k \in 1 .. Len(seq) : seq[k] = k - 1

InLoop == {"check", "call", "roundtrip", "meshRange", "meshSelect", "meshDial"}

InTransport == {"roundtrip", "meshRange", "meshSelect", "meshDial"}

\* in this step a transport's send gets c's payload across and says so
ReportsOk(c) == delivered[c] # "reported" /\ delivered'[c] = "reported"

\* in this step c's Send returns
SendReturns(c) == op'[c] = "Send" /\ pc[c] # "done" /\ pc'[c] = "done"

\* C1: Send attempts the transports in the order of the chain, position 0
\* first; the step in which a transport's send succeeds sets currentIndex to
\* that transport's position and returns ok, and once Send has returned no
\* further transport is invoked for it.
C1_FirstSuccessReturns ==
    [][\A c \in Callers :
          op'[c] = "Send" =>
             /\ InChainOrder(attempts'[c])
             /\ ReportsOk(c) =>
                   /\ pc'[c] = "done"
                   /\ result'[c] = NoErr
                   /\ currentIndex' = Last(attempts'[c])
             /\ (pc[c] = "done" /\ pc'[c] = "done") => attempts'[c] = attempts[c]
      ]_vars

\* the third transport delivered: positions 0, 1, 2 were tried, in order
C1_Witness ==
    \E c \in Callers :
        /\ op[c] = "Send" /\ pc[c] = "done" /\ result[c] = NoErr
        /\ attempts[c] = << 0, 1, 2 >>
        /\ currentIndex = 2

\* C2: in a Send whose context is not cancelled every failure, of whatever
\* class, moves on to the next transport: the transports before the current
\* one have each been attempted exactly once, a Send that returns ok has
\* attempted exactly the transports up to the one that succeeded, and a Send
\* that fails has attempted every transport, the mesh transport included.
C2_FailureFallsThrough ==
    \A c \in Callers :
        (op[c] = "Send" /\ ~cancelled[c]) =>
           /\ InChainOrder(attempts[c])
           /\ pc[c] \in {"check", "call"} => Len(attempts[c]) = i[c]
           /\ pc[c] \in InTransport => Len(attempts[c]) = i[c] + 1
           /\ (pc[c] = "done" /\ result[c] = NoErr) => Len(attempts[c]) = i[c] + 1
           /\ (pc[c] = "done" /\ result[c] # NoErr) =>
                 /\ result[c] = AllFailedErr
                 /\ Len(attempts[c]) = N
                 /\ transports[Last(attempts[c])].kind = "mesh"

\* all four fronting transports failed and the mesh transport delivered
C2_Witness ==
    \E c \in Callers :
        /\ op[c] = "Send" /\ pc[c] = "done" /\ ~cancelled[c]
        /\ result[c] = NoErr
        /\ attempts[c] = << 0, 1, 2, 3, 4 >>
        /\ Name(GetCurrentTransport) = "mesh"

\* C3: a Send that fails with its context live returns the manager's
\* all-transports-failed error, and that error carries the reason of the last
\* transport failure.
C3_CarriesLastReason ==
    \A c \in Callers :
        (op[c] = "Send" /\ pc[c] = "done" /\ ~cancelled[c] /\ result[c] # NoErr) =>
           /\ result[c].kind = "manager"
           /\ result[c].inner # ""
           /\ result[c].inner = err[c].cause

\* C4 as the spec has it: ok means the payload is with a remote end, failure
\* means it is with none.
C4_NoMaybeDelivered ==
    \A c \in Callers :
        (op[c] = "Send" /\ pc[c] = "done") =>
           /\ result[c] = NoErr => delivered[c] # "no"
           /\ result[c] # NoErr => delivered[c] = "no"

\* C4, amended: Send returns ok exactly when a transport's send got the
\* payload across and said so; after a failed Send the payload may still be
\* with a server that answered non-200 or whose answer was lost.
C4_OkIffReported ==
    \A c \in Callers :
        (op[c] = "Send" /\ pc[c] = "done") =>
           (result[c] = NoErr <=> delivered[c] = "reported")

\* a failed Send whose payload a server holds
C4_Witness ==
    \E c \in Callers :
        /\ op[c] = "Send" /\ pc[c] = "done"
        /\ result[c] # NoErr
        /\ delivered[c] = "unreported"

\* C5 as the spec has it: a context cancelled before t.Send is entered on
\* position p keeps Send from entering t.Send on p or later, and a Send that
\* then fails returns ctx.Err().
C5_CancelBeforeSend ==
    \A c \in Callers :
        (op[c] = "Send" /\ cancelled[c]) =>
           /\ \A k \in 1 .. Len(attempts[c]) : attempts[c][k] < cancelPoint[c].invoke
           /\ (pc[c] = "done" /\ result[c] # NoErr /\ cancelPoint[c].invoke < N) =>
                 result[c] = CtxErr

\* C5, amended: a context cancelled before the select at the top of
\* iteration p runs keeps Send from entering t.Send on p or later, and a Send
\* that then fails returns ctx.Err().
C5_CancelBeforeCheck ==
    \A c \in Callers :
        (op[c] = "Send" /\ cancelled[c]) =>
           /\ \A k \in 1 .. Len(attempts[c]) : attempts[c][k] < cancelPoint[c].check
           /\ (pc[c] = "done" /\ result[c] # NoErr /\ cancelPoint[c].check < N) =>
                 result[c] = CtxErr

\* cancelled while the first transport was failing: the second is not tried
C5_Witness ==
    \E c \in Callers :
        /\ op[c] = "Send" /\ pc[c] = "done" /\ cancelled[c]
        /\ cancelPoint[c].check = 1
        /\ attempts[c] = << 0 >>
        /\ result[c] = CtxErr

\* C6: a Send whose context was cancelled while it ran, and that did not
\* succeed, returns ctx.Err() itself.
C6_CancelSurfaced ==
    \A c \in Callers :
        (op[c] = "Send" /\ pc[c] = "done" /\ cancelled[c] /\ result[c] # NoErr) =>
           result[c] = CtxErr

C8_SendsSerialized ==
    \A c \in Callers :
        (op[c] = "Send" /\ pc[c] \in InLoop) =>
           /\ mu = c
           /\ \A d \in Callers \ {c} : ~(op[d] = "Send" /\ pc[d] \in InLoop)

\* one caller is in a transport while another waits for the mutex
C8_Witness ==
    \E c, d \in Callers :
        /\ c # d
        /\ pc[c] \in InTransport /\ op[c] = "Send"
        /\ pc[d] = "lock"

\* C9: currentIndex starts at 0 and stays in 0 .. N-1; it changes only in a
\* step in which a Send or a SwitchTo returns ok; and a Send that returns ok
\* leaves it at the position of the transport that delivered.
C9_CurrentIndex ==
    /\ currentIndex = 0
    /\ [][/\ currentIndex' \in 0 .. N - 1
          /\ currentIndex' # currentIndex =>
                \E c \in Callers :
                    /\ pc[c] # "done" /\ pc'[c] = "done"
                    /\ op'[c] \in {"Send", "SwitchTo"}
                    /\ result'[c] = NoErr
          /\ \A c \in Callers :
                (SendReturns(c) /\ result'[c] = NoErr) =>
                   /\ currentIndex' = Last(attempts'[c])
                   /\ ReportsOk(c)
         ]_vars

\* the fourth transport delivered and currentIndex says so
C9_Witness ==
    \E c \in Callers :
        /\ op[c] = "Send" /\ pc[c] = "done" /\ result[c] = NoErr
        /\ Len(attempts[c]) = 4
        /\ currentIndex = 3

\* the peer lists m.peers has held in full
CompleteLists == PeerInputs \cup {<< >>, StaticPeers}

\* C10: a mesh Send ranges over a peer list m.peers has held in full, the
\* one its emptiness check saw.
C10_PeersReadAtomically ==
    \A c \in Callers :
        pc[c] \in {"meshSelect", "meshDial"} =>
           /\ ranged[c] \in CompleteLists
           /\ Len(ranged[c]) = checkedLen[c]

\* the signs of a CDN block the spec lists
Signs == {"502", "Bad Gateway", "blocked", "certificate"}

\* s = a \o sub \o b for some a and b
HasPart(s, sub) ==
    \E a \in 0 .. Len(s) : \E b \in a .. Len(s) : SubSeq(s, a + 1, b) = sub

\* C11: isBlockingError is true of every error whose message has "502",
\* "Bad Gateway", "blocked" or "certificate" in it, the spec's examples among
\* them, and false of a nil error and of every message with none of the four.
C11_ClassifierComplete ==
    blocking # "unknown" =>
       /\ sendErr = NoErr => blocking = "no"
       /\ sendErr # NoErr =>
             (blocking = "yes" <=> \E n \in Signs : HasPart(Error(sendErr), n))
       /\ Error(sendErr) \in {"502 Bad Gateway", "blocked by policy",
                              "certificate expired", "... 502 ..."}
             => blocking = "yes"
       /\ Error(sendErr) \in {"timeout", "connection refused", "dial tcp: no route"}
             => blocking = "no"

\* "... 502 ..." has been classified as blocking
C11_Witness ==
    /\ sendErr # NoErr
    /\ Error(sendErr) = "... 502 ..."
    /\ blocking = "yes"

\* C12: the error fronting.Send returns for a 502, a 503 or a 504 from any
\* front is one isBlockingError is true of.
C12_GatewayIsBlocking ==
    (blocking # "unknown" /\ sendErr.kind = "fronting"
        /\ sendErr.status \in {502, 503, 504}) => blocking = "yes"

C14_NoPeers ==
    [][\A c \in Callers :
          (pc[c] = "call" /\ transports[i[c]].kind = "mesh" /\ peers.len = 0
              /\ pc'[c] # "call") =>
             /\ pc'[c] = "done"
             /\ err'[c] = NoPeersErr
             /\ result'[c] = AllFailedErr
             /\ sentTo'[c] = NoPeer
             /\ delivered'[c] = delivered[c]
      ]_vars

\* the outer Send failed on a mesh transport without peers
C14_Witness ==
    \E c \in Callers :
        /\ op[c] = "Send" /\ pc[c] = "done"
        /\ peers.len = 0
        /\ attempts[c] = << 0, 1, 2, 3, 4 >>
        /\ err[c] = NoPeersErr
        /\ result[c] = AllFailedErr

\* C15: a context cancelled before the select at the top of the attempt on
\* peer k makes mesh Send return ctx.Err() at that select; a peer is dialed
\* only if its select ran before the cancellation.
C15_CancelBetweenPeers ==
    [][\A c \in Callers :
          /\ (cancelled'[c] /\ pc'[c] = "meshDial") =>
                peerIdx'[c] < cancelPoint'[c].peer
          /\ (op[c] = "mesh.Send" /\ cancelled[c] /\ pc[c] = "meshSelect"
                 /\ pc'[c] # "meshSelect") =>
                /\ pc'[c] = "done"
                /\ result'[c] = CtxErr
      ]_vars

\* cancelled after the first peer's select: the second peer is not dialed
C15_Witness ==
    \E c \in Callers :
        /\ op[c] = "mesh.Send" /\ pc[c] = "done" /\ cancelled[c]
        /\ cancelPoint[c].peer = 2
        /\ result[c] = CtxErr

\* C16: when the attempt on the last peer of the sequence fails too, mesh
\* Send returns the aggregated error, and the reason it carries is the
\* failure of that last attempt, not a nil or an empty one.
C16_LastReason ==
    [][\A c \in Callers :
          (op[c] = "mesh.Send" /\ pc[c] = "meshDial" /\ pc'[c] = "done"
              /\ result'[c] \notin {NoErr, Panicked}) =>
             /\ result'[c].kind = "mesh"
             /\ result'[c].cause = "failed to send to any peer"
             /\ result'[c].inner \in
                   {PeerErr(o, Last(ranged[c])) : o \in {"dial failed", "write failed"}}
             /\ result'[c].inner \notin {NilError, ""}
      ]_vars

\* both peers failed, the second at the write
C16_Witness ==
    \E c \in Callers :
        /\ op[c] = "mesh.Send" /\ pc[c] = "done"
        /\ result[c] = AnyPeerErr(PeerErr("write failed", "10.0.0.7:7100"))

\* net.IP.IsLoopback of the address in "ip:port": 127.0.0.0/8
IsLoopbackAddr(addr) == SubSeq(addr, 1, 4) = "127."

\* the node's own endpoint: its local address and its mesh port
SelfEndpoint == LocalIP \o ":" \o ToString(MeshPort)

\* C17: whatever New, UpdatePeers and the reconciler's ticks did, the mesh
\* transport's peer sequence holds no loopback address and not the node's own
\* endpoint.
C17_NoLoopbackNoSelf ==
    \A k \in 1 .. Len(peers.ptr) :
        /\ ~IsLoopbackAddr(peers.ptr[k])
        /\ peers.ptr[k] # SelfEndpoint

\* C18: an endpoint that GetPeers has returned is in every later output of
\* GetPeers: no answer takes an entry out of the cache or puts another
\* endpoint in its place.
C18_CacheOnlyGrows ==
    [][\A n \in DOMAIN sdPeers :
          \E n2 \in DOMAIN sdPeers' : sdPeers'[n2] = sdPeers[n]
      ]_vars

\* C19: the step in which the reconciler takes a tick leaves the mesh
\* transport's peers alone when discovery has found nothing, and otherwise
\* makes them the snapshot: one address per discovered entry and nothing
\* else; with nodeA at 10.0.0.5:7100 alone the peers are ["10.0.0.5:7100"].
C19_TickReplaces ==
    [][(tickPending /\ ~tickPending') =>
          IF DOMAIN sdPeers = {}
          THEN peers' = peers
          ELSE /\ peers'.len = Cardinality(DOMAIN sdPeers)
               /\ Len(peers'.ptr) = peers'.len
               /\ {peers'.ptr[k] : k \in 1 .. peers'.len}
                     = {sdPeers[n] : n \in DOMAIN sdPeers}
               /\ sdPeers = [n \in {"nodeA"} |-> "10.0.0.5:7100"]
                     => peers' = Header(<< "10.0.0.5:7100" >>)
      ]_vars

\* nodeA was discovered at 10.0.0.6:7100 and a tick made it the mesh's peer
C19_Witness ==
    /\ sdPeers = [n \in {"nodeA"} |-> "10.0.0.6:7100"]
    /\ peers = Header(<< "10.0.0.6:7100" >>)
    /\ ~tickPending

\* C20: neither loop ends before its stop channel is closed; Stop closes
\* both; and once Stop has been called the reconciler's loop and
\* discovery's loop both end.
C20_StopEndsBothLoops ==
    /\ [](recPc = "exited" => apmStopped)
    /\ [](discPc = "exited" => sdStopped)
    /\ [](apmStopped => sdStopped)
    /\ (apmStopped ~> (recPc = "exited" /\ discPc = "exited"))

\* Stop was called and both loops have ended
C20_Witness ==
    /\ apmStopped
    /\ recPc = "exited"
    /\ discPc = "exited"

\* C21: from the return of a successful Start until Stop the mDNS server
\* that announces the local service is running, and the query loop runs.
C21_AnnouncesWhileStarted ==
    (startResult = "ok" /\ ~sdStopped) =>
       /\ announcing
       /\ discPc = "running"

\* C22: Send returns ok for a 200; for any other status it returns an
\* error whose text tells the class of the status (403 blocked, 404 not
\* found, 502/503/504 gateway error with the code, any other status with
\* its code) and names the front domain.
C22_StatusClasses ==
    (frPc = "done" /\ frOut.resp) =>
       LET msg == Error(frErr)
           code == ToString(frOut.status)
       IN  IF frOut.status = 200 THEN frErr = NoErr
           ELSE /\ frErr # NoErr
                /\ HasPart(msg, frT.FrontDomain)
                /\ HasPart(msg, code)
                /\ frOut.status = 403 <=> HasPart(msg, "CDN blocked request")
                /\ frOut.status = 404 <=> HasPart(msg, "endpoint not found")
                /\ frOut.status \in {502, 503, 504} <=> HasPart(msg, "CDN gateway error")
                /\ frOut.status \notin {403, 404, 502, 503, 504}
                      <=> HasPart(msg, "returned status")

\* the server on front a answered 403 and the error says 403 and a
C22_Witness ==
    /\ frPc = "done"
    /\ frT.FrontDomain = "a"
    /\ frOut = Response(403)
    /\ Error(frErr) = "CDN blocked request to a (403 Forbidden)"

C29_NonBlockingStay ==
    (blocking # "unknown" /\ sendErr.kind = "fronting"
        /\ \/ sendErr.status \in {403, 404}
           \/ sendErr.cause \in {"timed out after 8 seconds", "request failed",
                                 "network connection failed"}) =>
       blocking = "no"

\* C24: Connect is idempotent; in particular the mesh transport holds exactly
\* one open listening socket: every listening socket that is open is the one
\* m.listener refers to, and none is left open and unreferenced.
C24_OneListener == sockets \subseteq {listener}

C25_SwitchToFirstMatch ==
    [][\A c \in Callers :
          /\ (pc[c] = "idle" /\ op'[c] = "SwitchTo") =>
                LET found == {j \in 0 .. N - 1 :
                                 Name(transports[j]) = switchArg'[c]}
                IN  /\ found # {} =>
                          /\ result'[c] = NoErr
                          /\ currentIndex' \in found
                          /\ \A j \in found : currentIndex' <= j
                    /\ found = {} =>
                          /\ result'[c] # NoErr
                          /\ currentIndex' = currentIndex
          /\ op'[c] = "Send" => InChainOrder(attempts'[c])]_vars

\* one caller has switched to the mesh transport, the last of the chain,
\* and the other's Send has begun with position 0 all the same
C25_Witness ==
    \E c, d \in Callers :
       /\ op[c] = "SwitchTo"
       /\ switchArg[c] = "mesh"
       /\ result[c] = NoErr
       /\ currentIndex = N - 1
       /\ op[d] = "Send"
       /\ attempts[d] = << 0 >>

C30_UnavailableSkipped ==
    \A c \in Callers :
       op[c] = "Send" =>
          /\ \A k \in 1 .. Len(attempts[c]) : available[attempts[c][k]]
          /\ \A k \in 1 .. Len(attempts[c]) - 1 :
                /\ attempts[c][k] < attempts[c][k + 1]
                /\ \A j \in attempts[c][k] + 1 .. attempts[c][k + 1] - 1 :
                      ~available[j]
          /\ attempts[c] # << >> =>
                \A j \in 0 .. attempts[c][1] - 1 : ~available[j]
          /\ (\A j \in 0 .. N - 1 : ~available[j]) /\ pc[c] = "done" =>
                /\ attempts[c] = << >>
                /\ result[c] \in {AllFailedErr, CtxErr}

\* a Send has skipped the unavailable transport at position 1 and gone on to
\* position 2, and a Send over a chain without any available transport has
\* failed
C30_Witness ==
    \E c \in Callers :
       /\ op[c] = "Send"
       /\ ~available[1]
       /\ Len(attempts[c]) >= 2
       /\ attempts[c][1] = 0
       /\ attempts[c][2] = 2

\* every transport is unavailable and Send has said so
C30_WitnessNone ==
    \E c \in Callers :
       /\ op[c] = "Send"
       /\ pc[c] = "done"
       /\ \A j \in 0 .. N - 1 : ~available[j]
       /\ result[c] = AllFailedErr

\* C28: creating a verification for a contact discards every code issued
\* for it before, so that the only code that validates for a contact is the
\* one created for it last: a code that Validate would accept now is the
\* code of the Create that returned last.
C28_OnlyLatestValidates ==
    \A contact \in Contacts, code \in Codes :
       Verdict(table[TableOf(contact)], contact, code, now) = "ok" =>
          code = latest[contact]

\* C36: a Send that does not succeed leaves currentIndex as it was: from the
\* step that takes m.mu to the return, no step changes currentIndex unless it
\* is the return of ok, so GetCurrentTransport afterwards names the transport
\* of the last success or SwitchTo, or the first transport.
C36_FailedSendKeepsIndex ==
    [][\A c \in Callers :
          (op[c] = "Send" /\ mu = c /\ ~(pc'[c] = "done" /\ result'[c] = NoErr))
             => currentIndex' = currentIndex]_vars

\* every transport failed a Send, and currentIndex still is the position
\* that delivered an earlier message
C36_Witness ==
    \E c \in Callers :
       /\ op[c] = "Send"
       /\ pc[c] = "done"
       /\ result[c] = AllFailedErr
       /\ Len(attempts[c]) = N
       /\ currentIndex = 3

\* C37: the telemetry of a message is accurate under concurrency: when a
\* request's Send succeeded, the transport name handleSend then reads with
\* GetCurrentTransport is the name of the transport that delivered the
\* message, whatever other requests do meanwhile.
C37_TelemetryAccurate ==
    \A c \in Callers :
       telemetry[c].success =>
          telemetry[c].transport = telemetry[c].deliveredBy

\* C38: once AutoPeerManager.Stop has returned the reconciler takes no tick
\* any more, one that was pending when Stop was called included, and so does
\* not call UpdatePeers with the discovered peers again.
C38_NoReconcileAfterStop ==
    [][apmStopped => ~(tickPending /\ ~tickPending' /\ DOMAIN sdPeers # {})]_vars

\* the position of the first ch in s at or after k, 0 when there is none
RECURSIVE IndexFrom(_, _, _)
IndexFrom(s, ch, k) ==
    IF k > Len(s) THEN 0
    ELSE IF SubSeq(s, k, k) = ch THEN k
    ELSE IndexFrom(s, ch, k + 1)

DecimalDigits == {"0", "1", "2", "3", "4", "5", "6", "7", "8", "9"}

DigitValue(ch) == CHOOSE v \in 0 .. 9 : ToString(v) = ch

\* s is one to three decimal digits
IsNumeral(s) ==
    /\ Len(s) \in 1 .. 3
    /\ \A k \in 1 .. Len(s) : SubSeq(s, k, k) \in DecimalDigits

RECURSIVE NumeralValue(_)
NumeralValue(s) ==
    IF Len(s) = 0 THEN 0
    ELSE 10 * NumeralValue(SubSeq(s, 1, Len(s) - 1))
            + DigitValue(SubSeq(s, Len(s), Len(s)))

IsOctet(s) == IsNumeral(s) /\ NumeralValue(s) \in 0 .. 255

\* net.ParseIP(s).To4() is not nil: four octets with dots between them
IsIPv4(s) ==
    LET d1 == IndexFrom(s, ".", 1)
        d2 == IndexFrom(s, ".", d1 + 1)
        d3 == IndexFrom(s, ".", d2 + 1)
    IN  /\ d1 > 0 /\ d2 > 0 /\ d3 > 0
        /\ IndexFrom(s, ".", d3 + 1) = 0
        /\ IsOctet(SubSeq(s, 1, d1 - 1))
        /\ IsOctet(SubSeq(s, d1 + 1, d2 - 1))
        /\ IsOctet(SubSeq(s, d2 + 1, d3 - 1))
        /\ IsOctet(SubSeq(s, d3 + 1, Len(s)))

\* addr is host:port with an IPv4 host and a decimal port
IsIPv4Endpoint(addr) ==
    LET colon == IndexFrom(addr, ":", 1)
        port == SubSeq(addr, colon + 1, Len(addr))
    IN  /\ colon > 1
        /\ IsIPv4(SubSeq(addr, 1, colon - 1))
        /\ Len(port) \in 1 .. 5
        /\ \A k \in 1 .. Len(port) : SubSeq(port, k, k) \in DecimalDigits

\* C35: every entry of the discovery cache is host:port with host a
\* parseable IPv4 address; an answer without an IPv4 address makes no entry.
C35_CacheHoldsIPv4 ==
    \A n \in DOMAIN sdPeers : IsIPv4Endpoint(sdPeers[n])

\* answers under both names have been cached
C35_Witness ==
    /\ Cardinality(DOMAIN sdPeers) = 2
    /\ \A n \in DOMAIN sdPeers : sdPeers[n] = "10.0.0.6:7100"

\* C34: the port announced over mDNS is the port the mesh transport's
\* listener is bound to, for an AutoPeerManager made with any meshPort and
\* then started.
C34_AnnouncedPortIsBound ==
    (sdPort # NoPort /\ listener # NoSocket) => AnnouncedPort = boundPort

\* C31: the fronting dialer tries its resolvers in the order system default,
\* 8.8.8.8, 1.1.1.1, 9.9.9.9; it returns the connection of the first one for
\* which the TCP dial and the TLS handshake with the front domain as server
\* name both succeed and tries none after it; when all four have failed the
\* Send fails with the all-DNS-servers-failed error.
C31_ResolversInOrder ==
    /\ Len(tried) <= 4
    /\ \A k \in 1 .. Len(tried) :
          tried[k] = << "", "8.8.8.8:53", "1.1.1.1:53", "9.9.9.9:53" >>[k]
    /\ used # 0 =>
          /\ Len(tried) = used
          /\ outcomes[used] = "ok"
          /\ dSni = WireT.FrontDomain
          /\ \A k \in 1 .. used - 1 : outcomes[k] # "ok"
    /\ (dPc = "done" /\ used = 0) =>
          /\ Len(tried) = 4
          /\ \A k \in 1 .. 4 : outcomes[k] \in {"dial failed", "handshake failed"}
          /\ dErr # NoErr
          /\ HasPart(dErr.inner, "all DNS servers failed")

\* the system's resolver gave an address whose handshake failed, and the
\* Send succeeded over the connection made with 8.8.8.8
C31_Witness ==
    /\ dPc = "done"
    /\ dErr = NoErr
    /\ tried = << "", "8.8.8.8:53" >>
    /\ outcomes = << "handshake failed", "ok" >>

\* every resolver failed
C31_WitnessExhausted ==
    /\ dPc = "done"
    /\ used = 0
    /\ Len(tried) = 4

\* C32: resources are released on every exit path: when the mesh Send has
\* returned no connection it opened to a peer is open (and while it runs, at
\* most the one it is writing to); the TCP socket of a fronting dial attempt
\* whose handshake failed is closed; and when the fronting Send has returned
\* after a response, the body of the response is closed.
C32_Released ==
    /\ mPc = "done" => mConns = {}
    /\ mConns \subseteq (IF mPc = "write" THEN {StaticPeers[mIdx]} ELSE {})
    /\ tcpOpen \subseteq (IF dPc = "handshake" THEN {dIdx}
                          ELSE IF used # 0 THEN {used} ELSE {})
    /\ dPc = "done" => ~bodyOpen

\* a handshake failed, a response other than 200 came over a later
\* connection, a mesh Send reached a peer after another had failed the
\* write, and both Sends have returned
C32_Witness ==
    /\ dPc = "done"
    /\ dStatus = 502
    /\ \E k \in 1 .. Len(outcomes) : outcomes[k] = "handshake failed"
    /\ mPc = "done"
    /\ mErr = NoErr
    /\ mIdx = 2
    /\ mLast = PeerErr("write failed", StaticPeers[1])

\* C40: an invite token is single-use: for any token at most one
\* ValidateInvite call ever returns its contact info, whether the calls run
\* one after another or at the same time.
C40_SingleUse ==
    \A t \in Tokens : granted[t] <= 1

\* the consequence the claim draws, which the UNIQUE columns of users and
\* not the invite bring about: no invite completes two registrations
C40_OneRegistration ==
    \A t \in Tokens : completed[t] <= 1

\* C39: every Manager.Send terminates and releases the manager mutex on
\* every exit path, provided each transport send returns: no caller that has
\* returned or has yet to lock holds the mutex, and every call that waits at
\* m.mu.Lock(), of Send, GetStatus, GetCurrentTransport or SwitchTo, gets the
\* mutex and returns.
C39_NoDeadlock ==
    /\ [](\A c \in Callers : pc[c] \in {"idle", "lock", "wait", "done"} => mu # c)
    /\ \A c \in Callers :
          (pc[c] \in {"lock", "wait"}) ~> (pc[c] = "done" /\ mu # c)

\* a Send whose context was cancelled holds the mutex inside the mesh
\* transport while another call waits at m.mu.Lock()
C39_Witness ==
    \E c, d \in Callers :
        /\ mu = c
        /\ pc[c] = "meshDial"
        /\ cancelled[c]
        /\ pc[d] = "wait"
        /\ op[d] = "GetStatus"

====
